---- MODULE Spec2Model ----
(***************************************************************************)
(* A model of the AI bug-ticket generator's backend proxies and of the     *)
(* client's ticket parser:                                                  *)
(*   - the in-memory rate limiters (Express middleware, serverless         *)
(*     handlers),                                                           *)
(*   - validateJiraUrl,                                                     *)
(*   - parseTicketForJira,                                                  *)
(*   - the test-jira and push-to-jira handlers.                             *)
(* Strings that the code inspects are sequences of one-character strings.  *)
(***************************************************************************)
EXTENDS Integers, Sequences, FiniteSets, TLC

VARIABLES
    impl,           \* which limiter / handler implementation this process runs
    rateLimitMap,   \* the module-level Map: caller key -> {count, resetTime}
    now,            \* Date.now()
    advances,       \* how many times the clock has moved
    nth,            \* per caller: requests seen since the one that opened its window
    openedAt,       \* per caller: arrival time of the request that opened its window
    last,           \* the last request handled by the limiter and its outcome
    url,            \* the argument of validateJiraUrl
    urlResult,      \* what validateJiraUrl returned for it
    ticketContent,  \* the argument of parseTicketForJira
    secPriority,    \* the code that the text's Priority section carries
    fields,         \* what parseTicketForJira returned for it
    request,        \* the request on its way to a tracker endpoint
    run,            \* the handler's run for it: position, calls sent, response
    client,         \* pushToJira in the browser: waiting for the response, or its toast
    apiKey,         \* process.env.ANTHROPIC_API_KEY
    server,         \* the backend process: loading, listening or exited, and its key
    signals,        \* what getApiEndpoint reads: build variables, window.location
    endpoint,       \* what getApiEndpoint returned for them
    allowedAt,      \* per caller: the arrival times of its allowed requests
    shadowMap,      \* the Express map as it would be without the cleanup
    invocations,    \* handler invocations on one instance: queued, suspended, denied
    page,           \* the React state of the page
    jobs            \* the asynchronous runs that the page has started

limiterVars == <<impl, rateLimitMap, now, advances, nth, openedAt, last>>
urlVars == <<url, urlResult>>
parserVars == <<ticketContent, secPriority, fields>>
serverVars == <<apiKey, server>>
handlerVars == <<request, run, client, serverVars>>
endpointVars == <<signals, endpoint>>
historyVars == <<allowedAt, shadowMap, invocations>>
pageVars == <<page, jobs>>
vars == <<limiterVars, urlVars, parserVars, handlerVars, endpointVars, historyVars, pageVars>>

-----------------------------------------------------------------------------
(* Bounds of the model *)

MaxAdvances == 2        \* the clock moves at most this many times
MaxOver == 1            \* requests followed beyond the threshold in one window
MaxAttachments == 2     \* attachments in one request
MaxOptions == 2         \* allowed values the tracker lists for the team field
MaxRuns == 2                \* runs of generateTicket started
MaxPushes == 1              \* runs of pushToJira, and of testJiraConnection
MaxJobs == MaxRuns + MaxPushes + MaxPushes
MaxBatch == 2               \* files in one selection or drop
MaxReads == 1               \* selections being read at a time
MaxFiles == 11              \* files attached
MaxQueued == 2          \* invocations waiting for their turn on the event loop

-----------------------------------------------------------------------------
(* Text: a string is a sequence of one-character strings *)

LowerLetters == <<"a","b","c","d","e","f","g","h","i","j","k","l","m",
                  "n","o","p","q","r","s","t","u","v","w","x","y","z">>
UpperLetters == <<"A","B","C","D","E","F","G","H","I","J","K","L","M",
                  "N","O","P","Q","R","S","T","U","V","W","X","Y","Z">>
Digits == {"0","1","2","3","4","5","6","7","8","9"}

Range(f) == {f[i] : i \in DOMAIN f}

LowerSet == Range(LowerLetters)
UpperSet == Range(UpperLetters)
LowerOf == [c \in UpperSet |-> LowerLetters[CHOOSE i \in 1..26 : UpperLetters[i] = c]]
UpperOf == [c \in LowerSet |-> UpperLetters[CHOOSE i \in 1..26 : LowerLetters[i] = c]]

IsAlpha(c) == c \in LowerSet \/ c \in UpperSet

\* One character of String.prototype.toLowerCase / toUpperCase (ASCII).
ToLowerChar(c) == IF c \in UpperSet THEN LowerOf[c] ELSE c
ToUpperChar(c) == IF c \in LowerSet THEN UpperOf[c] ELSE c

toLowerCase(s) == [i \in 1..Len(s) |-> ToLowerChar(s[i])]
toUpperCase(s) == [i \in 1..Len(s) |-> ToUpperChar(s[i])]

\* s.substring(from - 1): what is left of s from position from on.
From(s, from) == SubSeq(s, from, Len(s))

\* Whether lit stands in s at position i.
At(s, i, lit) ==
    /\ i >= 1
    /\ i + Len(lit) - 1 <= Len(s)
    /\ \A j \in 1..Len(lit) : s[i + j - 1] = lit[j]

\* String.prototype.endsWith
endsWith(s, suffix) ==
    Len(suffix) <= Len(s) /\ At(s, Len(s) - Len(suffix) + 1, suffix)

\* The first position >= i at which lit stands in s; 0 if there is none.
IndexOfFrom(s, lit, i) ==
    IF \E p \in i..Len(s) : At(s, p, lit)
    THEN CHOOSE p \in i..Len(s) :
            At(s, p, lit) /\ \A q \in i..(p - 1) : ~At(s, q, lit)
    ELSE 0

\* The first position >= i of s whose character is not in set; Len(s) + 1 if none.
SkipIn(s, i, set) ==
    CHOOSE p \in i..(Len(s) + 1) :
        /\ p = Len(s) + 1 \/ s[p] \notin set
        /\ \A q \in i..(p - 1) : s[q] \in set

\* The last position in a..b of s whose character is in set; 0 if none.
LastIn(s, a, b, set) ==
    IF \E p \in a..b : s[p] \in set
    THEN CHOOSE p \in a..b : s[p] \in set /\ \A q \in (p + 1)..b : s[q] \notin set
    ELSE 0

\* The first position >= i of s whose character is in set; Len(s) + 1 if none.
SkipTo(s, i, set) ==
    CHOOSE p \in i..(Len(s) + 1) :
        /\ p = Len(s) + 1 \/ s[p] \in set
        /\ \A q \in i..(p - 1) : s[q] \notin set

-----------------------------------------------------------------------------
(* new URL(url), without a base: the parts validateJiraUrl reads *)

C_https == <<"h","t","t","p","s">>
C_http == <<"h","t","t","p">>
C_ftp == <<"f","t","p">>
C_ws == <<"w","s">>
C_wss == <<"w","s","s">>
SpecialSchemes == {C_https, C_http, C_ftp, C_ws, C_wss}

\* Leading and trailing C0 control or space is removed.
UrlStrip(s) ==
    LET a == SkipIn(s, 1, {" "}) IN
    IF a > Len(s) THEN << >>
    ELSE LET b == CHOOSE p \in a..Len(s) :
                    s[p] # " " /\ \A q \in (p + 1)..Len(s) : s[q] = " "
         IN SubSeq(s, a, b)

SchemeChars == LowerSet \cup UpperSet \cup Digits \cup {"+", "-", "."}

\* Code points a host may not hold (those of the model's alphabet).
ForbiddenHostChars == {" ", "#", "/", ":", "?", "@", "\\", "%", "<", ">", "[", "]", "^", "|"}

ParseFailure == [ok |-> FALSE, protocol |-> << >>, hostname |-> << >>]

\* The authority of a URL whose scheme has been read: rest is what follows
\* the slashes. Credentials end at the last "@", the host at the first ":",
\* the port is digits up to 65535. A special scheme needs a host.
ParseAuthority(scheme, rest, special) ==
    LET stop == SkipTo(rest, 1, IF special THEN {"/", "\\", "?", "#"} ELSE {"/", "?", "#"})
        authority == SubSeq(rest, 1, stop - 1)
        at == LastIn(authority, 1, Len(authority), {"@"})
        hostport == From(authority, at + 1)
        colon == SkipTo(hostport, 1, {":"})
        host == SubSeq(hostport, 1, colon - 1)
        port == From(hostport, colon + 1)
    IN  IF at > 0 /\ hostport = << >> THEN ParseFailure
        ELSE IF special /\ host = << >> THEN ParseFailure
        ELSE IF \E i \in 1..Len(host) : host[i] \in ForbiddenHostChars THEN ParseFailure
        ELSE IF \E i \in 1..Len(port) : port[i] \notin Digits THEN ParseFailure
        ELSE IF Len(port) > 5 THEN ParseFailure
        ELSE [ok |-> TRUE, protocol |-> scheme \o <<":">>,
              hostname |-> IF special THEN toLowerCase(host) ELSE host]

\* new URL(input): ok is FALSE where the constructor throws TypeError.
\* Hosts are domain names: no IPv4 or IPv6 literal, no percent-encoding.
ParseURL(input) ==
    LET s == UrlStrip(input)
        k == SkipIn(s, 1, SchemeChars)
    IN  IF s = << >> \/ ~IsAlpha(s[1]) THEN ParseFailure
        ELSE IF k > Len(s) \/ s[k] # ":" THEN ParseFailure
        ELSE LET scheme == toLowerCase(SubSeq(s, 1, k - 1))
                 rest == From(s, k + 1)
             IN IF scheme \in SpecialSchemes
                THEN ParseAuthority(scheme,
                                    From(rest, SkipIn(rest, 1, {"/", "\\"})),
                                    TRUE)
                ELSE IF At(rest, 1, <<"/", "/">>)
                THEN ParseAuthority(scheme, From(rest, 3), FALSE)
                ELSE [ok |-> TRUE, protocol |-> scheme \o <<":">>, hostname |-> << >>]

C_atlassian_net == <<".","a","t","l","a","s","s","i","a","n",".","n","e","t">>

\* validateJiraUrl with the two checks in the other order.
validateJiraUrlHostFirst(u) ==
    LET parsedUrl == ParseURL(u) IN
    IF ~parsedUrl.ok
    THEN [valid |-> FALSE, error |-> "Invalid Jira URL format", threw |-> FALSE]
    ELSE IF ~endsWith(parsedUrl.hostname, C_atlassian_net)
    THEN [valid |-> FALSE, error |-> "Only Atlassian-hosted Jira instances are allowed",
          threw |-> FALSE]
    ELSE IF parsedUrl.protocol # C_https \o <<":">>
    THEN [valid |-> FALSE, error |-> "Jira URL must use HTTPS", threw |-> FALSE]
    ELSE [valid |-> TRUE, error |-> "", threw |-> FALSE]

\* validateJiraUrl: the catch block answers where new URL throws.
validateJiraUrl(u) ==
    LET parsedUrl == ParseURL(u) IN
    IF ~parsedUrl.ok
    THEN [valid |-> FALSE, error |-> "Invalid Jira URL format", threw |-> FALSE]
    ELSE IF parsedUrl.protocol # C_https \o <<":">>
    THEN [valid |-> FALSE, error |-> "Jira URL must use HTTPS", threw |-> FALSE]
    ELSE IF ~endsWith(parsedUrl.hostname, C_atlassian_net)
    THEN [valid |-> FALSE, error |-> "Only Atlassian-hosted Jira instances are allowed",
          threw |-> FALSE]
    ELSE [valid |-> TRUE, error |-> "", threw |-> FALSE]

\* The URLs tried: every concatenation of one part of each kind.
UrlLead == {<< >>, <<" ">>}
UrlScheme == {<<"h","t","t","p","s",":">>, <<"H","T","T","P","S",":">>,
              <<"h","t","t","p",":">>, <<"s","s","h",":">>,
              <<"h","t","t","p","s">>, << >>, <<"1","h","t","t","p","s",":">>}
UrlSlashes == {<<"/","/">>, <<"/">>, << >>}
UrlCredentials == {<< >>, <<"x",".","a","t","l","a","s","s","i","a","n",".","n","e","t","@">>}
UrlHost == {<<"x">> \o C_atlassian_net,
            <<"X",".","A","T","L","A","S","S","I","A","N",".","N","E","T">>,
            <<"a","t","l","a","s","s","i","a","n",".","n","e","t">>,
            <<"x","a","t","l","a","s","s","i","a","n",".","n","e","t">>,
            <<"x">> \o C_atlassian_net \o <<".">>,
            <<"x">> \o C_atlassian_net \o <<".","e","v","i","l",".","c","o","m">>,
            <<"e","v","i","l",".","c","o","m">>,
            <<"e"," ","v">> \o C_atlassian_net,
            << >>}
UrlPort == {<< >>, <<":","8","4","4","3">>, <<":","x">>}
UrlTail == {<< >>, <<"/">>, <<"/">> \o C_atlassian_net, <<"?">> \o C_atlassian_net,
            <<"#">> \o C_atlassian_net}

Urls == {l \o s \o sl \o c \o h \o p \o t :
            l \in UrlLead, s \in UrlScheme, sl \in UrlSlashes, c \in UrlCredentials,
            h \in UrlHost, p \in UrlPort, t \in UrlTail}

-----------------------------------------------------------------------------
(* parseTicketForJira: the regular expressions, matched as the engine does *)

HeavyRule == "~"        \* stands for U+2501, of which the separator lines are made
Whitespace == {" ", "\n", "\t"}
WordChars == LowerSet \cup UpperSet \cup Digits \cup {"_"}
Undefined == <<"undefined">>

\* String.prototype.trim
trim(s) ==
    LET a == SkipIn(s, 1, Whitespace)
        b == LastIn(s, 1, Len(s), Range(s) \ Whitespace)
    IN  IF a > b THEN << >> ELSE SubSeq(s, a, b)

RECURSIVE TitleFrom(_, _)
\* /\*\*Title:\*\*\s*(.+?)(?:\n|$)/ tried from position i on: group 1 of the
\* leftmost match, Undefined if there is no match. \s* takes the whole run of
\* whitespace, and gives back up to a blank when the run ends the text.
TitleFrom(s, i) ==
    LET label == <<"*","*","T","i","t","l","e",":","*","*">>
        at == IndexOfFrom(s, label, i)
        a == at + Len(label)
        b == SkipIn(s, a, Whitespace)
        start == IF b <= Len(s) THEN b ELSE LastIn(s, a, Len(s), Whitespace \ {"\n"})
        nl == IndexOfFrom(s, <<"\n">>, start)
    IN  IF at = 0 THEN Undefined
        ELSE IF start = 0 THEN TitleFrom(s, at + 1)
        ELSE SubSeq(s, start, (IF nl = 0 THEN Len(s) + 1 ELSE nl) - 1)

RECURSIVE SectionFrom(_, _, _)
\* /<label>\s*\n([\s\S]*?)(?:\n~|$)/ tried from position i on: group 1 of the
\* leftmost match, Undefined if there is no match. \s* stops before the last
\* newline of the run of whitespace that follows the label; the body ends
\* before the first newline that a separator follows, else with the text.
SectionFrom(s, label, i) ==
    LET at == IndexOfFrom(s, label, i)
        a == at + Len(label)
        b == SkipIn(s, a, Whitespace)
        nl == LastIn(s, a, b - 1, {"\n"})
        sep == IndexOfFrom(s, <<"\n", HeavyRule>>, nl + 1)
    IN  IF at = 0 THEN Undefined
        ELSE IF nl = 0 THEN SectionFrom(s, label, at + 1)
        ELSE SubSeq(s, nl + 1, IF sep = 0 THEN Len(s) ELSE sep - 1)

\* The section without its default: match && match[1].trim()
SectionBodyNoDefault(s, label) ==
    LET m == SectionFrom(s, label, 1) IN
    IF m = Undefined THEN Undefined ELSE trim(m)

\* match ? match[1].trim() : ''
SectionBody(s, label) ==
    LET m == SectionFrom(s, label, 1) IN
    IF m = Undefined THEN << >> ELSE trim(m)

\* ([Pp][1-4])\b at position p of s
CodeAt(s, p) ==
    /\ p >= 1
    /\ p + 1 <= Len(s)
    /\ s[p] \in {"P", "p"}
    /\ s[p + 1] \in {"1", "2", "3", "4"}
    /\ (p + 1 = Len(s) \/ s[p + 2] \notin WordChars)

\* Whether /<label><set>*([Pp][1-4])\b/ matches at position i; hay is the
\* text as the label is compared with it, s the text itself.
LabelThenCodeAt(hay, s, label, set, some, i) ==
    /\ At(hay, i, label)
    /\ CodeAt(s, SkipIn(s, i + Len(label), set))
    /\ some => SkipIn(s, i + Len(label), set) > i + Len(label)

\* Group 1 of the leftmost match, else Undefined.
LabelThenCodeFrom(hay, s, label, set, some) ==
    IF \E i \in 1..Len(s) : LabelThenCodeAt(hay, s, label, set, some, i)
    THEN LET i == CHOOSE i \in 1..Len(s) :
                    /\ LabelThenCodeAt(hay, s, label, set, some, i)
                    /\ \A j \in 1..(i - 1) : ~LabelThenCodeAt(hay, s, label, set, some, j)
             q == SkipIn(s, i + Len(label), set)
         IN  SubSeq(s, q, q + 1)
    ELSE Undefined

\* /<label><set>*([Pp][1-4])\b/ (at least one character of set when some is
\* TRUE; letter case of the label ignored under the i flag): group 1 of the
\* leftmost match, else Undefined.
LabelThenCode(s, label, ignoreCase, set, some) ==
    IF ignoreCase
    THEN LabelThenCodeFrom(toLowerCase(s), s, toLowerCase(label), set, some)
    ELSE LabelThenCodeFrom(s, s, label, set, some)

\* /([Pp][1-4])\b/: group 1 of the leftmost match in s, else Undefined.
FirstCode(s) ==
    IF \E i \in 1..Len(s) : CodeAt(s, i)
    THEN LET i == CHOOSE i \in 1..Len(s) :
                    CodeAt(s, i) /\ \A j \in 1..(i - 1) : ~CodeAt(s, j)
         IN  SubSeq(s, i, i + 1)
    ELSE Undefined

C_BoldPriority == <<"*","*","P","r","i","o","r","i","t","y",":","*","*">>
C_PriorityColon == <<"P","r","i","o","r","i","t","y",":">>
C_Priority == <<"P","r","i","o","r","i","t","y">>

\* Pattern 1: /\*\*Priority:\*\*\s*([Pp][1-4])\b/
priorityMatch1(s) == LabelThenCode(s, C_BoldPriority, FALSE, Whitespace, FALSE)
\* Pattern 2: /Priority:\s*([Pp][1-4])\b/i
priorityMatch2(s) == LabelThenCode(s, C_PriorityColon, TRUE, Whitespace, FALSE)
\* Pattern 3: /Priority\s+([Pp][1-4])\b/i
priorityMatch3(s) == LabelThenCode(s, C_Priority, TRUE, Whitespace, TRUE)
\* Pattern 4: /Priority[:\s\*]*\s*([Pp][1-4])\b/i
priorityMatch4(s) ==
    LabelThenCode(s, C_Priority, TRUE, Whitespace \cup {":", "*"}, FALSE)
\* Pattern 5: /\*\*Priority:\*\*[\s\S]{0,30}/i, and /([Pp][1-4])\b/ in what it matched
prioritySection(s) ==
    LET at == IndexOfFrom(toLowerCase(s), toLowerCase(C_BoldPriority), 1)
        end == at + Len(C_BoldPriority) + 30 - 1
    IN  IF at = 0 THEN Undefined
        ELSE SubSeq(s, at, IF end > Len(s) THEN Len(s) ELSE end)
pMatch(s) ==
    IF prioritySection(s) = Undefined THEN Undefined
    ELSE FirstCode(prioritySection(s))

\* The patterns in the order the code tries them; the first match decides.
ExtractPriorityText(s) ==
    IF priorityMatch1(s) # Undefined THEN toUpperCase(trim(priorityMatch1(s)))
    ELSE IF priorityMatch2(s) # Undefined THEN toUpperCase(trim(priorityMatch2(s)))
    ELSE IF priorityMatch3(s) # Undefined THEN toUpperCase(trim(priorityMatch3(s)))
    ELSE IF priorityMatch4(s) # Undefined THEN toUpperCase(trim(priorityMatch4(s)))
    ELSE IF pMatch(s) # Undefined THEN toUpperCase(trim(pMatch(s)))
    ELSE Undefined

\* /^P[1-4]$/.test(t)
IsPriorityCode(t) ==
    t # Undefined /\ Len(t) = 2 /\ t[1] = "P" /\ t[2] \in {"1", "2", "3", "4"}

\* if (!priorityText || !/^P[1-4]$/.test(priorityText)) priorityText = 'P3'
priorityText(s) ==
    IF IsPriorityCode(ExtractPriorityText(s)) THEN ExtractPriorityText(s)
    ELSE <<"P", "3">>

\* The table with P4 given the identifier of Jira's Lowest priority.
priorityIdMapLowest(p) ==
    CASE p = <<"P", "1">> -> <<"1">>
      [] p = <<"P", "2">> -> <<"2">>
      [] p = <<"P", "3">> -> <<"3">>
      [] p = <<"P", "4">> -> <<"5">>
      [] OTHER -> Undefined

\* priorityIdMap[p]
priorityIdMap(p) ==
    CASE p = <<"P", "1">> -> <<"1">>
      [] p = <<"P", "2">> -> <<"2">>
      [] p = <<"P", "3">> -> <<"3">>
      [] p = <<"P", "4">> -> <<"4">>
      [] OTHER -> Undefined

C_Title == <<"*","*","T","i","t","l","e",":","*","*">>
C_Description == <<"*","*","D","e","s","c","r","i","p","t","i","o","n",":","*","*">>
C_Steps == <<"*","*","S","t","e","p","s"," ","t","o"," ","R","e","p","r","o","d","u","c","e",":","*","*">>
C_Expected == <<"*","*","E","x","p","e","c","t","e","d"," ","B","e","h","a","v","i","o","u","r",":","*","*">>
C_Actual == <<"*","*","A","c","t","u","a","l"," ","B","e","h","a","v","i","o","u","r",":","*","*">>
C_Impact == <<"*","*","I","m","p","a","c","t",":","*","*">>
C_Environment == <<"*","*","E","n","v","i","r","o","n","m","e","n","t",":","*","*">>
C_BugReport == <<"B","u","g"," ","R","e","p","o","r","t">>

\* titleMatch ? titleMatch[1].trim() : 'Bug Report'
TitleOf(s) ==
    IF TitleFrom(s, 1) = Undefined THEN C_BugReport ELSE trim(TitleFrom(s, 1))

parseTicketForJira(ticketText) ==
    LET p == priorityText(ticketText)
        id == IF priorityIdMap(p) \in {Undefined, << >>} THEN <<"3">> ELSE priorityIdMap(p)
    IN  [title |-> TitleOf(ticketText),
         description |-> SectionBody(ticketText, C_Description),
         steps |-> SectionBody(ticketText, C_Steps),
         expected |-> SectionBody(ticketText, C_Expected),
         actual |-> SectionBody(ticketText, C_Actual),
         impact |-> SectionBody(ticketText, C_Impact),
         priorityId |-> id,
         priorityName |-> p,
         environment |-> SectionBody(ticketText, C_Environment)]

-----------------------------------------------------------------------------
(* The ticket texts tried: every concatenation of one part of each kind *)

Rule == <<HeavyRule, HeavyRule, "\n">>

TitleParts == {<< >>,
               <<"*","*","T","i","t","l","e",":","*","*"," ","L","o","g","i","n"," ","f","a","i","l","s","\n">>,
               <<"*","*","T","i","t","l","e",":","*","*"," ","\n">>,
               <<"*","*","T","i","t","l","e",":","*","*"," ","P","r","i","o","r","i","t","y",":"," ","P","1"," ","u","s","e","r","s","\n">>}
DescriptionParts == {<< >>,
                     <<"*","*","D","e","s","c","r","i","p","t","i","o","n",":","*","*","\n","A","p","p"," ","d","o","w","n"," ","\n">> \o Rule,
                     <<"*","*","D","e","s","c","r","i","p","t","i","o","n",":","*","*"," ","i","n","l","i","n","e","\n">> \o Rule,
                     <<"*","*","D","e","s","c","r","i","p","t","i","o","n",":","*","*","\n","F","o","r"," ","p","r","i","o","r","i","t","y"," ","P","4"," ","u","s","e","r","s","\n">> \o Rule}
StepsParts == {<< >>, <<"*","*","S","t","e","p","s"," ","t","o"," ","R","e","p","r","o","d","u","c","e",":","*","*","\n","1","."," ","O","p","e","n","\n">> \o Rule}
BehaviourParts == {<< >>,
                   <<"*","*","E","x","p","e","c","t","e","d"," ","B","e","h","a","v","i","o","u","r",":","*","*","\n","W","o","r","k","s","\n">> \o Rule \o
                   <<"*","*","A","c","t","u","a","l"," ","B","e","h","a","v","i","o","u","r",":","*","*","\n","F","a","i","l","s","\n">> \o Rule}
ImpactParts == {<< >>, <<"*","*","I","m","p","a","c","t",":","*","*","\n","A","l","l","\n">> \o Rule}
EnvironmentParts == {<< >>, <<"*","*","E","n","v","i","r","o","n","m","e","n","t",":","*","*","\n","C","h","r","o","m","e">>}

\* The ways a Priority section carries its code.
PriorityForm(form, code) ==
    CASE form = "bold" -> <<"*","*","P","r","i","o","r","i","t","y",":","*","*"," ">> \o code \o <<"\n">> \o Rule
      [] form = "lower" -> <<"*","*","P","r","i","o","r","i","t","y",":","*","*"," ">> \o toLowerCase(code) \o <<"\n">> \o Rule
      [] form = "colon" -> <<"P","r","i","o","r","i","t","y",":"," ">> \o code \o <<"\n">> \o Rule
      [] form = "space" -> <<"P","r","i","o","r","i","t","y"," ">> \o code \o <<"\n">> \o Rule
      [] form = "flexible" -> <<"*","*","P","r","i","o","r","i","t","y","*","*",":"," ">> \o code \o <<"\n">> \o Rule
      [] form = "near" -> <<"*","*","P","r","i","o","r","i","t","y",":","*","*"," ","H","i","g","h"," ","(">> \o code \o <<")", "\n">> \o Rule
PriorityForms == {"bold", "lower", "colon", "space", "flexible", "near"}
PriorityCodes == {<<"P", "1">>, <<"P", "2">>, <<"P", "3">>, <<"P", "4">>}

\* Priority sections without a code of P1..P4, and no Priority section.
CodelessPriorityParts == {<< >>,
                          <<"*","*","P","r","i","o","r","i","t","y",":","*","*"," ","P","5","\n">> \o Rule,
                          <<"*","*","P","r","i","o","r","i","t","y",":","*","*"," ","H","i","g","h","\n">> \o Rule}

\* Pairs <<the Priority part, the code it carries or Undefined>>
PriorityParts ==
    {<<PriorityForm(f, c), c>> : f \in PriorityForms, c \in PriorityCodes}
    \cup {<<part, Undefined>> : part \in CodelessPriorityParts}

-----------------------------------------------------------------------------
(* The test-jira and push-to-jira handlers *)

\* !v for the values a request body holds: undefined and '' are falsy.
Truthy(v) == v \notin {Undefined, << >>}

\* jiraUrl.replace(/\/$/, '')
cleanJiraUrl(u) ==
    IF Len(u) > 0 /\ u[Len(u)] = "/" THEN SubSeq(u, 1, Len(u) - 1) ELSE u

\* The required-field test that forgets the API token.
RequiredFieldsPresentNoToken(route, body) ==
    /\ Truthy(body.jiraUrl)
    /\ Truthy(body.email)
    /\ route = "push-to-jira" => (Truthy(body.projectKey) /\ body.fields.present)

\* if (!jiraUrl || !email || !apiToken [|| !projectKey || !fields])
RequiredFieldsPresent(route, body) ==
    /\ Truthy(body.jiraUrl)
    /\ Truthy(body.email)
    /\ Truthy(body.apiToken)
    /\ route = "push-to-jira" => (Truthy(body.projectKey) /\ body.fields.present)

NoTeamField == [id |-> Undefined, value |-> Undefined]

\* fields.priorityId || '3', fields.priorityName || 'P3'
PriorityOf(f) ==
    [id |-> IF Truthy(f.priorityId) THEN f.priorityId ELSE <<"3">>,
     name |-> IF Truthy(f.priorityName) THEN f.priorityName ELSE <<"P", "3">>]

\* jiraPayload as it stands before the custom fields: project, issue type
\* and priority (summary and description are copied from fields unread).
jiraPayload(body) ==
    [project |-> [key |-> body.projectKey],
     issuetype |-> [name |-> "Bug"],
     priority |-> PriorityOf(body.fields),
     customfield_11737 |-> NoTeamField]

\* String(customFields.engineeringTeam).trim(), for a team that is a string
engTeamValue(body) == trim(body.customFields.engineeringTeam)

\* if (customFields) if (customFields.engineeringTeam) if (engTeamValue)
NeedsTeamLookup(body) ==
    /\ body.customFields.present
    /\ Truthy(body.customFields.engineeringTeam)
    /\ engTeamValue(body) # << >>

\* The first option of allowedValues that find() accepts; 0 if none.
MatchingOption(allowedValues, teamValue) ==
    IF \E i \in 1..Len(allowedValues) :
          allowedValues[i].value = teamValue \/ allowedValues[i].name = teamValue
    THEN CHOOSE i \in 1..Len(allowedValues) :
            /\ allowedValues[i].value = teamValue \/ allowedValues[i].name = teamValue
            /\ \A j \in 1..(i - 1) :
                  ~(allowedValues[j].value = teamValue \/ allowedValues[j].name = teamValue)
    ELSE 0

\* The lookup taking the first option offered, whether or not it matches.
getEngineeringTeamIdFirstOption(meta, teamValue) ==
    IF meta.kind # "options" THEN Undefined
    ELSE IF Len(meta.allowedValues) > 0 /\ Truthy(meta.allowedValues[1].id)
         THEN meta.allowedValues[1].id
         ELSE Undefined

\* getEngineeringTeamId(teamValue), given what the createmeta call came to:
\* the option's id, or Undefined for the null it returns otherwise.
getEngineeringTeamId(meta, teamValue) ==
    IF meta.kind # "options" THEN Undefined
    ELSE LET m == MatchingOption(meta.allowedValues, teamValue) IN
         IF m # 0 /\ Truthy(meta.allowedValues[m].id)
         THEN meta.allowedValues[m].id
         ELSE Undefined

\* Lengths of the error text in a tracker's answer: under and over what the
\* proxy and the client pass on whole.
TextShort == 40
TextLong == 300

\* A message: what it says and how many characters it has; cut is set once
\* the client has shortened it.
Text(text, len) == [text |-> text, len |-> len, cut |-> FALSE]
NoText == Text("", 0)

\* error.message of an error caught by a handler's outer catch.
CaughtMessage == Text("<error.message>", TextShort)

Min(a, b) == IF a < b THEN a ELSE b

\* The message of a non-2xx answer to the issue creation, by the kind of its
\* body and the length of the text the tracker put there.
CreateErrorMessage(kind, size) ==
    CASE kind = "nonJson" ->
             Text("Jira API returned non-JSON response: <first 200 characters>",
                  37 + Min(size, 200))
      [] kind = "errorMessages" -> Text("<errorMessages joined>", size)
      [] kind = "errors" -> Text("<field errors joined>", size)
      [] kind = "error" -> Text("<error>", size)
      [] OTHER -> Text("Failed to create Jira ticket", 28)

\* The message of a non-2xx answer to the connection test, by its status.
TestErrorMessage(status) ==
    CASE status = 401 -> Text("Authentication failed. Please check your email and API token.", 61)
      [] status = 403 -> Text("Access denied. Your account may not have permission.", 52)
      [] status = 404 -> Text("Jira instance not found. Please check your URL.", 47)
      [] OTHER -> Text("Connection test failed", 22)

\* The error of a URL that validateJiraUrl rejects, as a message.
UrlErrorMessage(error) ==
    Text(error, IF error = "Only Atlassian-hosted Jira instances are allowed" THEN 48 ELSE 23)

TooLargeMessage ==
    Text("One or more files are too large for Jira. Please remove large files and try again.", 82)

Response(status, error, key) == [status |-> status, error |-> error, key |-> key]
NoResponse == Response(0, NoText, "")

\* The first position >= i of attachments whose entry is not passed over;
\* Len(attachments) + 1 if none. An entry without readable data throws
\* before its upload is sent, the inner catch logs it and the loop goes on.
NextUploadable(attachments, i) ==
    CHOOSE p \in i..(Len(attachments) + 1) :
        /\ p = Len(attachments) + 1 \/ attachments[p] # "malformed"
        /\ \A q \in i..(p - 1) : attachments[q] = "malformed"

-----------------------------------------------------------------------------
(* pushToJira in the browser: from the proxy's response to the toast *)

\* displayMessage.length > 200
ToastLimit == 200

\* A toast: which message of the client it is, the proxy's text it carries
\* (if any), its length, and whether it was shortened.
Toast(kind, text, len) == [kind |-> kind, text |-> text, len |-> len, cut |-> FALSE]
NoToast == Toast("none", "", 0)

\* displayMessage.substring(0, 200) + '...' for a message over 200 characters
Truncate(t) ==
    IF t.len > ToastLimit
    THEN [t EXCEPT !.len = ToastLimit + 3, !.cut = TRUE]
    ELSE t

\* The message by the status alone, 413 forgotten.
ErrorOfStatusNoTooLarge(response) ==
    CASE response.status = 401 -> Toast("authentication", "", 81)
      [] response.status = 403 -> Toast("permission", "", 98)
      [] response.status = 404 -> Toast("not-found", "", 78)
      [] OTHER -> Toast("server-text", response.error.text, 2 + response.error.len)

\* The Error thrown for a response that is not ok: by the status for 413, 401,
\* 403 and 404, else the proxy's error string behind a cross mark.
ErrorOfStatus(response) ==
    CASE response.status = 413 -> Toast("too-large", "", 157)
      [] response.status = 401 -> Toast("authentication", "", 81)
      [] response.status = 403 -> Toast("permission", "", 98)
      [] response.status = 404 -> Toast("not-found", "", 78)
      [] OTHER -> Toast("server-text", response.error.text, 2 + response.error.len)

\* The toast pushToJira shows for the proxy's response.
pushToJiraToast(response) ==
    IF response.status \in 200..299
    THEN Toast("success", response.key, 41)
    ELSE Truncate(ErrorOfStatus(response))

\* The toast for the Error fetchWithTimeout throws when its timer aborts.
TimeoutToast == Truncate(Toast("timeout", "", 79))

-----------------------------------------------------------------------------
(* getApiEndpoint *)

\* String.prototype.includes
includes(s, sub) == \E p \in 1..Len(s) : At(s, p, sub)

\* s.replace(sub, by) with a string pattern: the first occurrence only.
replace(s, sub, by) ==
    LET p == IndexOfFrom(s, sub, 1)
    IN  IF p = 0 THEN s ELSE SubSeq(s, 1, p - 1) \o by \o From(s, p + Len(sub))

C_generate_ticket == <<"g","e","n","e","r","a","t","e","-","t","i","c","k","e","t">>
C_vercel == <<"v","e","r","c","e","l">>
C_netlify == <<"n","e","t","l","i","f","y">>
C_vercel_app == <<"v","e","r","c","e","l",".","a","p","p">>
C_vercel_com == <<"v","e","r","c","e","l",".","c","o","m">>
C_netlify_app == <<"n","e","t","l","i","f","y",".","a","p","p">>
C_netlify_com == <<"n","e","t","l","i","f","y",".","c","o","m">>

\* `/api/${functionName}`
VercelPath(functionName) == <<"/","a","p","i","/">> \o functionName
\* `/.netlify/functions/${functionName}`
NetlifyPath(functionName) == <<"/",".","n","e","t","l","i","f","y","/","f","u","n","c","t","i","o","n","s","/">> \o functionName
\* `http://localhost:3001/api/${functionName}`
LocalPath(functionName) == <<"h","t","t","p",":","/","/","l","o","c","a","l","h","o","s","t",":","3","0","0","1","/","a","p","i","/">> \o functionName

\* The test of the page's address for a Vercel domain.
isVercel(hostname, href) ==
    \/ includes(hostname, C_vercel_app)
    \/ includes(hostname, C_vercel_com)
    \/ includes(href, C_vercel_app)
    \/ includes(href, C_vercel_com)
    \/ endsWith(hostname, <<".">> \o C_vercel_app)
    \/ endsWith(hostname, <<".">> \o C_vercel_com)

\* The test of the page's address for a Netlify domain.
isNetlify(hostname, href) ==
    \/ includes(hostname, C_netlify_app)
    \/ includes(hostname, C_netlify_com)
    \/ includes(href, C_netlify_app)
    \/ includes(href, C_netlify_com)
    \/ endsWith(hostname, <<".">> \o C_netlify_app)
    \/ endsWith(hostname, <<".">> \o C_netlify_com)

\* getApiEndpoint with the Netlify path where detection has failed.
getApiEndpointNetlifyFallback(e, functionName) ==
    IF Truthy(e.VITE_API_URL)
    THEN IF includes(e.VITE_API_URL, C_generate_ticket)
         THEN replace(e.VITE_API_URL, C_generate_ticket, functionName)
         ELSE e.VITE_API_URL \o <<"/">> \o functionName
    ELSE IF e.VITE_PLATFORM = C_vercel THEN VercelPath(functionName)
    ELSE IF e.VITE_PLATFORM = C_netlify THEN NetlifyPath(functionName)
    ELSE IF ~e.PROD THEN LocalPath(functionName)
    ELSE IF e.window = "throws" THEN NetlifyPath(functionName)
    ELSE IF e.window = "undefined" THEN NetlifyPath(functionName)
    ELSE LET hostname == toLowerCase(e.hostname)
             href == toLowerCase(e.href)
         IN  IF isVercel(hostname, href) THEN VercelPath(functionName)
             ELSE IF isNetlify(hostname, href) THEN NetlifyPath(functionName)
             ELSE NetlifyPath(functionName)

\* getApiEndpoint(functionName) under the signals e: the override, the
\* platform variable, the development build, the page's address, and the
\* Vercel path where the address tells nothing, there is no window, or
\* reading the address throws.
getApiEndpoint(e, functionName) ==
    IF Truthy(e.VITE_API_URL)
    THEN IF includes(e.VITE_API_URL, C_generate_ticket)
         THEN replace(e.VITE_API_URL, C_generate_ticket, functionName)
         ELSE e.VITE_API_URL \o <<"/">> \o functionName
    ELSE IF e.VITE_PLATFORM = C_vercel THEN VercelPath(functionName)
    ELSE IF e.VITE_PLATFORM = C_netlify THEN NetlifyPath(functionName)
    ELSE IF ~e.PROD THEN LocalPath(functionName)
    ELSE IF e.window = "throws" THEN VercelPath(functionName)
    ELSE IF e.window = "undefined" THEN VercelPath(functionName)
    ELSE LET hostname == toLowerCase(e.hostname)
             href == toLowerCase(e.href)
         IN  IF isVercel(hostname, href) THEN VercelPath(functionName)
             ELSE IF isNetlify(hostname, href) THEN NetlifyPath(functionName)
             ELSE VercelPath(functionName)

\* The signals tried.
ApiUrls == {Undefined, << >>, <<"/","/","b",".","i","o","/","f","n">>, <<"/","/","b",".","i","o","/","g","e","n","e","r","a","t","e","-","t","i","c","k","e","t">>}
Platforms == {Undefined, C_vercel, C_netlify, <<"a","w","s">>}
Hostnames ==
    {<<"a",".","v","e","r","c","e","l",".","a","p","p">>, <<"a",".","v","e","r","c","e","l",".","c","o","m">>, <<"a",".","n","e","t","l","i","f","y",".","a","p","p">>,
     <<"a",".","n","e","t","l","i","f","y",".","c","o","m">>, <<"b",".","i","o">>, <<"v","e","r","c","e","l",".","a","p","p",".","b",".","i","o">>,
     <<"n","e","t","l","i","f","y",".","a","p","p",".","b",".","i","o">>,
     <<"l","o","c","a","l","h","o","s","t">>}
PagePaths == {<<"/">>, <<"/","?","f","r","o","m","=","n","e","t","l","i","f","y",".","a","p","p">>, <<"/","?","f","r","o","m","=","v","e","r","c","e","l",".","c","o","m">>}
FunctionNames == {C_generate_ticket, <<"t","e","s","t","-","j","i","r","a">>, <<"p","u","s","h","-","t","o","-","j","i","r","a">>}
\* window.location of a page: its hostname and its href.
Locations ==
    {[window |-> "present", hostname |-> h,
      href |-> <<"h","t","t","p","s",":","/","/">> \o h \o q] :
        h \in Hostnames, q \in PagePaths}
    \cup {[window |-> w, hostname |-> << >>, href |-> << >>] : w \in {"undefined", "throws"}}

Signals ==
    {[VITE_API_URL |-> u, VITE_PLATFORM |-> pl, PROD |-> pr, window |-> l.window,
      hostname |-> l.hostname, href |-> l.href, functionName |-> fn] :
        u \in ApiUrls, pl \in Platforms, pr \in BOOLEAN, l \in Locations,
        fn \in FunctionNames}

-----------------------------------------------------------------------------
(* The requests and the tracker's answers tried *)

C_PROJ == <<"P","R","O","J">>
C_Core == <<"C","o","r","e">>
C_Other == <<"O","t","h","e","r">>

JiraUrls == {Undefined, << >>,
             <<"h","t","t","p","s",":","/","/","x",".","a","t","l","a","s","s","i","a","n",".","n","e","t">>,
             <<"h","t","t","p","s",":","/","/","x",".","a","t","l","a","s","s","i","a","n",".","n","e","t","/">>,
             <<"h","t","t","p",":","/","/","x",".","a","t","l","a","s","s","i","a","n",".","n","e","t">>,
             <<"h","t","t","p","s",":","/","/","e","v","i","l",".","c","o","m">>,
             <<"x",".","a","t","l","a","s","s","i","a","n",".","n","e","t">>,
             <<"h","t","t","p","s",":","/","/","x",".","a","t","l","a","s","s","i","a","n",".","n","e","t",".","e","v","i","l",".","c","o","m">>}

\* The priority pairs tried: as parseTicketForJira produces them, whole or
\* with one half or both missing.
PriorityPairs == {<<d, <<"P">> \o d>> : d \in {<<"1">>, <<"4">>}}
NoFields == [present |-> FALSE, priorityId |-> Undefined, priorityName |-> Undefined]
FieldsTried ==
    {NoFields,
     [present |-> TRUE, priorityId |-> Undefined, priorityName |-> Undefined]}
    \cup {[present |-> TRUE, priorityId |-> p[1], priorityName |-> p[2]] :
            p \in PriorityPairs}
    \cup {[present |-> TRUE, priorityId |-> p[1], priorityName |-> Undefined] :
            p \in PriorityPairs}
    \cup {[present |-> TRUE, priorityId |-> Undefined, priorityName |-> p[2]] :
            p \in PriorityPairs}

TeamValues == {Undefined, << >>, <<" ">>, C_Core, <<" ">> \o C_Core \o <<" ">>}
NoCustomFields == [present |-> FALSE, engineeringTeam |-> Undefined]
CustomFieldsTried ==
    {NoCustomFields} \cup {[present |-> TRUE, engineeringTeam |-> t] : t \in TeamValues}

\* Attachment lists: "file" is an entry with data, "malformed" an object
\* without readable data, "null" the JSON value null.
AttachmentKinds == {"file", "malformed", "null"}
AttachmentsTried ==
    UNION {[1..n -> AttachmentKinds] : n \in 0..MaxAttachments}

EmptyBody ==
    [jiraUrl |-> Undefined, email |-> Undefined, apiToken |-> Undefined,
     projectKey |-> Undefined, fields |-> NoFields, customFields |-> NoCustomFields,
     attachments |-> << >>, messages |-> "undefined"]

\* Bodies that differ from a complete one in one required field or in the URL.
DefectiveBodies ==
    {[jiraUrl |-> u, email |-> e, apiToken |-> a, projectKey |-> k, fields |-> f,
      customFields |-> [present |-> TRUE, engineeringTeam |-> C_Core],
      attachments |-> <<"file">>, messages |-> "undefined"] :
        u \in JiraUrls, e \in {Undefined, <<"e">>}, a \in {Undefined, <<"t">>},
        k \in {Undefined, C_PROJ},
        f \in {NoFields, [present |-> TRUE, priorityId |-> <<"1">>,
                          priorityName |-> <<"P", "1">>]}}

\* Complete bodies without attachments: every priority pair with every team
\* value, under two URLs and two project keys.
PlainBodies ==
    {[jiraUrl |-> uk[1], email |-> <<"e">>, apiToken |-> <<"t">>, projectKey |-> uk[2],
      fields |-> f, customFields |-> c, attachments |-> << >>,
      messages |-> "undefined"] :
        uk \in {<<<<"h","t","t","p","s",":","/","/","x",".","a","t","l","a","s","s","i","a","n",".","n","e","t">>, C_PROJ>>,
                <<<<"h","t","t","p","s",":","/","/","x",".","a","t","l","a","s","s","i","a","n",".","n","e","t","/">>, C_PROJ>>,
                <<<<"h","t","t","p","s",":","/","/","x",".","a","t","l","a","s","s","i","a","n",".","n","e","t">>, <<"Q">> >>},
        f \in FieldsTried \ {NoFields}, c \in CustomFieldsTried}

\* Complete bodies with attachments, without and with a team to look up.
AttachmentBodies ==
    {[jiraUrl |-> <<"h","t","t","p","s",":","/","/","x",".","a","t","l","a","s","s","i","a","n",".","n","e","t">>,
      email |-> <<"e">>, apiToken |-> <<"t">>, projectKey |-> C_PROJ,
      fields |-> [present |-> TRUE, priorityId |-> <<"1">>, priorityName |-> <<"P", "1">>],
      customFields |-> c, attachments |-> at, messages |-> "undefined"] :
        c \in {NoCustomFields, [present |-> TRUE, engineeringTeam |-> C_Core]},
        at \in AttachmentsTried \ {<< >>}}

CompleteBodies == PlainBodies \cup AttachmentBodies

Bodies == DefectiveBodies \cup CompleteBodies \cup {EmptyBody}

Methods == {"POST", "OPTIONS", "GET"}

\* What the createmeta call can come to.
Options ==
    {[value |-> C_Core, name |-> Undefined, id |-> <<"1", "0">>],
     [value |-> C_Core, name |-> Undefined, id |-> Undefined],
     [value |-> C_Other, name |-> C_Core, id |-> <<"1", "1">>],
     [value |-> C_Other, name |-> Undefined, id |-> <<"1", "2">>]}
MetaOutcomes ==
    {[kind |-> k, allowedValues |-> << >>] :
        k \in {"throws", "nonOk", "badJson", "noProjects", "noField", "noAllowedValues"}}
    \cup {[kind |-> "options", allowedValues |-> av] :
            av \in UNION {[1..n -> Options] : n \in 0..MaxOptions}}
NoMeta == [kind |-> "none", allowedValues |-> << >>]

\* What the issue creation can come to: a thrown fetch, a 2xx answer with
\* the issue or with a body that does not parse, a non-2xx answer.
CreateOutcomes ==
    {[kind |-> k, status |-> 0, body |-> "", size |-> 0] : k \in {"throws"}}
    \cup {[kind |-> k, status |-> 201, body |-> "", size |-> 0] : k \in {"ok", "okBadJson"}}
    \cup {[kind |-> "nonOk", status |-> s, body |-> b, size |-> n] :
            s \in {400, 401, 403, 404, 500},
            b \in {"nonJson", "errorMessages", "errors", "error"},
            n \in {TextShort, TextLong}}
    \cup {[kind |-> "nonOk", status |-> s, body |-> b, size |-> 0] :
            s \in {400, 401, 403, 404, 500}, b \in {"null", "empty"}}

NoCreated == [kind |-> "none", status |-> 0, body |-> "", size |-> 0]

\* What the /myself call can come to.
MyselfOutcomes ==
    {[kind |-> k, status |-> 0] : k \in {"throws"}}
    \cup {[kind |-> k, status |-> 200] : k \in {"ok", "okBadJson"}}
    \cup {[kind |-> "nonOk", status |-> s] : s \in {401, 403, 404, 500}}

\* What one attachment upload can come to.
UploadOutcomes == {"ok", "failed", "tooLarge", "throws"}

\* What the body of a generate-ticket request carries as messages.
MessagesTried == {"undefined", "array", "notArray"}
GenerateBodies == {[EmptyBody EXCEPT !.messages = m] : m \in MessagesTried}

\* What the call to the LLM API can come to: a thrown fetch, a 2xx answer
\* whose body parses or does not, a non-2xx answer whose body is JSON with
\* error.message, JSON without it, the JSON null, or not JSON.
LlmOutcomes ==
    {[kind |-> k, status |-> 0, body |-> ""] : k \in {"throws"}}
    \cup {[kind |-> k, status |-> 200, body |-> ""] : k \in {"ok", "okBadJson"}}
    \cup {[kind |-> "nonOk", status |-> s, body |-> b] :
            s \in {400, 401, 429, 500, 529},
            b \in {"message", "noMessage", "null", "nonJson"}}

\* No call to /myself or to the LLM API has been answered.
NoUpstream == [kind |-> "none", status |-> 0]

\* The values of ANTHROPIC_API_KEY tried: not set, empty, blank, a key, a
\* key with white space around and inside it.
ApiKeys ==
    {Undefined, << >>, <<" ">>, <<"k">>, <<" ", "k", "\n">>, <<"k", " ", "k">>}

-----------------------------------------------------------------------------
(* Rate limiting *)

RATE_LIMIT_WINDOW == 60000
CLEANUP_GRACE == 60000
MAX_REQUESTS_EXPRESS == 20
MAX_REQUESTS_JIRA == 10
MAX_REQUESTS_GENERATE == 15

Impls == {"express", "vercel-push-to-jira", "vercel-test-jira",
          "netlify-generate-ticket", "netlify-test-jira"}

MAX_REQUESTS_PER_WINDOW(i) ==
    CASE i = "express" -> MAX_REQUESTS_EXPRESS
      [] i = "netlify-generate-ticket" -> MAX_REQUESTS_GENERATE
      [] OTHER -> MAX_REQUESTS_JIRA

Keys == {"ip1", "ip2"}

\* rateLimitMap.set(ip, entry)
MapSet(map, ip, entry) ==
    [k \in DOMAIN map \cup {ip} |-> IF k = ip THEN entry ELSE map[k]]

\* The middleware with the threshold test off by one (> for >=).
rateLimitOffByOne(map, ip, t) ==
    IF ip \notin DOMAIN map
    THEN [map |-> MapSet(map, ip, [count |-> 1, resetTime |-> t + RATE_LIMIT_WINDOW]),
          status |-> 0]
    ELSE LET limit == map[ip] IN
         IF t > limit.resetTime
         THEN [map |-> MapSet(map, ip, [count |-> 1, resetTime |-> t + RATE_LIMIT_WINDOW]),
               status |-> 0]
         ELSE IF limit.count > MAX_REQUESTS_EXPRESS
         THEN [map |-> map, status |-> 429]
         ELSE [map |-> MapSet(map, ip, [limit EXCEPT !.count = @ + 1]),
               status |-> 0]

\* server.js: the Express middleware
rateLimit(map, ip, t) ==
    IF ip \notin DOMAIN map
    THEN [map |-> MapSet(map, ip, [count |-> 1, resetTime |-> t + RATE_LIMIT_WINDOW]),
          status |-> 0]
    ELSE LET limit == map[ip] IN
         IF t > limit.resetTime
         THEN [map |-> MapSet(map, ip, [count |-> 1, resetTime |-> t + RATE_LIMIT_WINDOW]),
               status |-> 0]
         ELSE IF limit.count >= MAX_REQUESTS_EXPRESS
         THEN [map |-> map, status |-> 429]
         ELSE [map |-> MapSet(map, ip, [limit EXCEPT !.count = @ + 1]),
               status |-> 0]

\* The handlers' limiter counting the rejected requests too, so that the
\* threshold is tested against a count that one more request has raised.
HandlerRateLimitLate(map, ip, t, max) ==
    IF ip \in DOMAIN map
    THEN LET limit == map[ip] IN
         IF t < limit.resetTime
         THEN IF limit.count >= max + 1
              THEN [map |-> map, status |-> 429]
              ELSE [map |-> MapSet(map, ip, [limit EXCEPT !.count = @ + 1]),
                    status |-> 0]
         ELSE [map |-> MapSet(map, ip, [count |-> 1, resetTime |-> t + RATE_LIMIT_WINDOW]),
               status |-> 0]
    ELSE [map |-> MapSet(map, ip, [count |-> 1, resetTime |-> t + RATE_LIMIT_WINDOW]),
          status |-> 0]

\* The handlers' limiter starting the minute again at every rejected request.
HandlerRateLimitPostponing(map, ip, t, max) ==
    IF ip \in DOMAIN map
    THEN LET limit == map[ip] IN
         IF t < limit.resetTime
         THEN IF limit.count >= max
              THEN [map |-> MapSet(map, ip,
                                   [limit EXCEPT !.resetTime = t + RATE_LIMIT_WINDOW]),
                    status |-> 429]
              ELSE [map |-> MapSet(map, ip, [limit EXCEPT !.count = @ + 1]),
                    status |-> 0]
         ELSE [map |-> MapSet(map, ip, [count |-> 1, resetTime |-> t + RATE_LIMIT_WINDOW]),
               status |-> 0]
    ELSE [map |-> MapSet(map, ip, [count |-> 1, resetTime |-> t + RATE_LIMIT_WINDOW]),
          status |-> 0]

\* api/*.js, netlify/functions/*: the first lines of every serverless handler
HandlerRateLimit(map, ip, t, max) ==
    IF ip \in DOMAIN map
    THEN LET limit == map[ip] IN
         IF t < limit.resetTime
         THEN IF limit.count >= max
              THEN [map |-> map, status |-> 429]
              ELSE [map |-> MapSet(map, ip, [limit EXCEPT !.count = @ + 1]),
                    status |-> 0]
         ELSE [map |-> MapSet(map, ip, [count |-> 1, resetTime |-> t + RATE_LIMIT_WINDOW]),
               status |-> 0]
    ELSE [map |-> MapSet(map, ip, [count |-> 1, resetTime |-> t + RATE_LIMIT_WINDOW]),
          status |-> 0]

\* The limiter that implementation i runs; status 0 means the request goes on.
Limiter(i, map, ip, t) ==
    IF i = "express" THEN rateLimit(map, ip, t)
    ELSE HandlerRateLimit(map, ip, t, MAX_REQUESTS_PER_WINDOW(i))

\* How far the clock moves between two requests: one millisecond, or to the
\* last millisecond of a window that opened now (both together: to its end).
Deltas == {1, RATE_LIMIT_WINDOW - 1}

NoRequest == [key |-> "none"]

NoResult == [valid |-> FALSE, error |-> "not called", threw |-> FALSE]

UrlIdle ==
    /\ url = << >>
    /\ urlResult = NoResult

NotParsed ==
    [title |-> Undefined, description |-> Undefined, steps |-> Undefined,
     expected |-> Undefined, actual |-> Undefined, impact |-> Undefined,
     priorityId |-> Undefined, priorityName |-> Undefined, environment |-> Undefined]

ParserIdle ==
    /\ ticketContent = << >>
    /\ secPriority = Undefined
    /\ fields = NotParsed

NoPayload ==
    [project |-> [key |-> Undefined], issuetype |-> [name |-> ""],
     priority |-> [id |-> Undefined, name |-> Undefined],
     customfield_11737 |-> NoTeamField]

\* The one caller of the handler runs.
HandlerKey == "ip1"

NoRun ==
    [pc |-> "idle", key |-> "none",
     req |-> [route |-> "none", method |-> "none", hasBody |-> FALSE,
              body |-> EmptyBody],
     base |-> << >>, jiraPayload |-> NoPayload, meta |-> NoMeta,
     created |-> NoCreated, uploads |-> << >>,
     outbound |-> << >>, i |-> 0, response |-> NoResponse,
     forwarded |-> << >>, upstream |-> NoUpstream, responses |-> 0]

NoPending == [route |-> "none", method |-> "none", hasBody |-> FALSE, body |-> EmptyBody]

NoClient == [pc |-> "idle", toast |-> NoToast]

\* No key in the environment, and a process that has not been started.
NoServer == [state |-> "loading", exitCode |-> 0, key |-> Undefined]

HandlerIdle ==
    /\ request = NoPending
    /\ run = NoRun
    /\ client = NoClient
    /\ apiKey = Undefined
    /\ server = NoServer

NoSignals ==
    [VITE_API_URL |-> Undefined, VITE_PLATFORM |-> Undefined, PROD |-> FALSE,
     window |-> "undefined", hostname |-> << >>, href |-> << >>,
     functionName |-> << >>]

EndpointIdle ==
    /\ signals = NoSignals
    /\ endpoint = Undefined

\* No request allowed yet, no shadow of the map, no invocation.
NoInvocations == [queued |-> << >>, suspended |-> 0, denied |-> 0]
HistoryIdle ==
    /\ allowedAt = << >>
    /\ shadowMap = << >>
    /\ invocations = NoInvocations

\* null, for the state that holds a text or null
Null == "null"

NoFiles == [image |-> 0, video |-> 0]

\* The page before anything is typed or attached. intervals: the countdown
\* intervals that run; bound: the ticketHistory of the render whose
\* handlers the keyboard listener calls; origin: the generated text that
\* the ticket shown derives from; cleared: resetForm ran and nothing was
\* generated or loaded since.
NoPage ==
    [bugDescription |-> "", files |-> NoFiles, loading |-> FALSE,
     ticket |-> Null, originalTicket |-> Null, editedTicket |-> "",
     isEditingTicket |-> FALSE, showSaveDialog |-> FALSE,
     qualityScore |-> Null, ticketHistory |-> << >>, toast |-> "none",
     countdownIntervalRef |-> 0, isPushingToJira |-> FALSE,
     isTestingConnection |-> FALSE, jiraConfigured |-> FALSE,
     intervals |-> {}, bound |-> << >>, origin |-> Null, cleared |-> FALSE]
PageIdle ==
    /\ page = NoPage
    /\ jobs = << >>

\* The limiter before any request.
LimiterStart ==
    /\ rateLimitMap = << >>
    /\ now = 0
    /\ advances = 0
    /\ nth = [k \in Keys |-> 0]
    /\ openedAt = [k \in Keys |-> 0]
    /\ last = NoRequest

InitLimiter ==
    /\ impl \in Impls
    /\ LimiterStart
    /\ UrlIdle
    /\ ParserIdle
    /\ HandlerIdle
    /\ EndpointIdle
    /\ HistoryIdle
    /\ PageIdle

\* The clock moves between two requests.
Tick(d) ==
    /\ advances < MaxAdvances
    /\ now' = now + d
    /\ advances' = advances + 1
    /\ UNCHANGED <<impl, rateLimitMap, nth, openedAt, last>>
    /\ UNCHANGED <<urlVars, parserVars, handlerVars, endpointVars, historyVars, pageVars>>

\* One request of caller ip passes through the limiter.
Request(ip) ==
    LET r == Limiter(impl, rateLimitMap, ip, now)
        hadEntry == ip \in DOMAIN rateLimitMap
        opened == r.status = 0 /\ r.map[ip].count = 1
        n == IF opened THEN 1 ELSE nth[ip] + 1
    IN  /\ n <= MAX_REQUESTS_PER_WINDOW(impl) + MaxOver
        /\ rateLimitMap' = r.map
        /\ nth' = [nth EXCEPT ![ip] = n]
        /\ openedAt' = [openedAt EXCEPT ![ip] = IF opened THEN now ELSE @]
        /\ last' = [key |-> ip, at |-> now, status |-> r.status, opened |-> opened,
                    n |-> n, hadEntry |-> hadEntry,
                    prev |-> IF hadEntry THEN rateLimitMap[ip]
                             ELSE [count |-> 0, resetTime |-> 0]]
        /\ UNCHANGED <<impl, now, advances>>
        /\ UNCHANGED <<urlVars, parserVars, handlerVars, endpointVars, historyVars, pageVars>>

NextLimiter ==
    \/ \E d \in Deltas : Tick(d)
    \/ \E ip \in Keys : Request(ip)

SpecLimiter == InitLimiter /\ [][NextLimiter]_vars

-----------------------------------------------------------------------------
(* validateJiraUrl on its own *)

InitUrl ==
    /\ url \in Urls
    /\ urlResult = NoResult
    /\ impl = "express"
    /\ LimiterStart
    /\ ParserIdle
    /\ HandlerIdle
    /\ EndpointIdle
    /\ HistoryIdle
    /\ PageIdle

\* validateJiraUrl(url) is called.
Validate ==
    /\ urlResult = NoResult
    /\ urlResult' = validateJiraUrl(url)
    /\ UNCHANGED <<url, limiterVars, parserVars, handlerVars, endpointVars, historyVars, pageVars>>

NextUrl == Validate

SpecUrl == InitUrl /\ [][NextUrl]_vars

-----------------------------------------------------------------------------
(* parseTicketForJira on its own *)

InitParser ==
    /\ \E t \in TitleParts, d \in DescriptionParts, st \in StepsParts,
          b \in BehaviourParts, i \in ImpactParts, p \in PriorityParts,
          e \in EnvironmentParts :
            /\ ticketContent = t \o d \o st \o b \o i \o p[1] \o e
            /\ secPriority = p[2]
    /\ fields = NotParsed
    /\ impl = "express"
    /\ LimiterStart
    /\ UrlIdle
    /\ HandlerIdle
    /\ EndpointIdle
    /\ HistoryIdle
    /\ PageIdle

\* parseTicketForJira(ticketContent) is called.
Parse ==
    /\ fields = NotParsed
    /\ fields' = parseTicketForJira(ticketContent)
    /\ UNCHANGED <<ticketContent, secPriority, limiterVars, urlVars, handlerVars, endpointVars, historyVars, pageVars>>

NextParser == Parse

SpecParser == InitParser /\ [][NextParser]_vars

-----------------------------------------------------------------------------
(* One run of a test-jira or push-to-jira handler, from the request to the *)
(* response, in steps that end where the code awaits the tracker.          *)
(* Left out: the headers set on the response, the console output, the     *)
(* payload fields copied from the request without a decision (summary,    *)
(* description, instance, product line, component, found version).        *)

\* The implementations that serve the tracker endpoints, and their routes.
HandlerImpls == Impls \cup {"vercel-generate-ticket"}
Routes(i) ==
    CASE i = "express" -> {"generate-ticket", "test-jira", "push-to-jira"}
      [] i = "vercel-push-to-jira" -> {"push-to-jira"}
      [] i \in {"vercel-generate-ticket", "netlify-generate-ticket"} -> {"generate-ticket"}
      [] OTHER -> {"test-jira"}

\* The Vercel function's key taken as it stands in the environment.
VercelApiKeyAsItStands(k) == k

\* The Vercel function's key: trimmed and with all white space removed, or
\* null when the variable is not set.
VercelApiKey(k) ==
    IF Truthy(k) THEN SelectSeq(trim(k), LAMBDA c : c \notin Whitespace) ELSE Undefined

\* The module-level ANTHROPIC_API_KEY of each implementation.
ANTHROPIC_API_KEY(i, k) ==
    IF i = "vercel-generate-ticket" THEN VercelApiKey(k) ELSE k

\* Only the Vercel generate-ticket function has no limiter.
HasLimiter(i) == i \in Impls

\* A call sent to the tracker.
Call(to, base, payload) == [to |-> to, base |-> base, payload |-> payload]

\* The run once it has answered.
Answer(r, response) ==
    [r EXCEPT !.pc = "done", !.response = response, !.responses = @ + 1]

\* The run from the attachment at position i on: the next entry with data is
\* sent, or, none being left, the issue is reported. A null entry throws in
\* the loop's try and again in its catch (attachment.filename), which ends
\* the loop in the outer catch: the issue is reported at once.
UploadFrom(r, i) ==
    LET at == r.req.body.attachments
        p == NextUploadable(at, i)
        skipped == [q \in 1..(p - i) |-> "malformed"]
    IN  IF p > Len(at)
        THEN Answer([r EXCEPT !.uploads = @ \o skipped], Response(200, NoText, "KEY-1"))
        ELSE IF at[p] = "null"
        THEN Answer([r EXCEPT !.uploads = @ \o skipped \o <<"malformed">>],
                    Response(200, NoText, "KEY-1"))
        ELSE [r EXCEPT !.pc = "upload", !.i = p,
                       !.uploads = @ \o skipped,
                       !.outbound = Append(@, Call("attachment", r.base, NoPayload))]

\* The handler from its first line to its first await (or to its response).
\* limited: the limiter's verdict. Express parses an absent body to {} and
\* routes only POST here.
Begin(i, key, req, limited) ==
    LET r0 == [NoRun EXCEPT !.key = key, !.req = req]
        route == req.route
        body == req.body
    IN  IF limited = 429
        THEN Answer(r0, Response(429, Text("Too many requests. Please try again in a minute.", 48), ""))
        ELSE IF i # "express" /\ req.method = "OPTIONS"
        THEN Answer(r0, Response(200, NoText, ""))
        ELSE IF i # "express" /\ req.method # "POST"
        THEN Answer(r0, Response(405, Text("Method not allowed", 18), ""))
        ELSE IF i # "express" /\ ~req.hasBody
        THEN Answer(r0, Response(500, CaughtMessage, ""))
        ELSE IF ~RequiredFieldsPresent(route, body)
        THEN Answer(r0, Response(400, IF route = "test-jira"
                                     THEN Text("Missing required fields: jiraUrl, email, apiToken", 49)
                                     ELSE Text("Missing required fields: jiraUrl, email, apiToken, projectKey, fields", 69),
                                ""))
        ELSE IF ~validateJiraUrl(body.jiraUrl).valid
        THEN Answer(r0, Response(400, UrlErrorMessage(validateJiraUrl(body.jiraUrl).error), ""))
        ELSE LET base == cleanJiraUrl(body.jiraUrl)
                 r1 == [r0 EXCEPT !.base = base]
             IN  IF route = "test-jira"
                 THEN [r1 EXCEPT !.pc = "myself",
                                 !.outbound = <<Call("myself", base, NoPayload)>>]
                 ELSE IF NeedsTeamLookup(body)
                 THEN [r1 EXCEPT !.pc = "lookup",
                                 !.jiraPayload = jiraPayload(body),
                                 !.outbound = <<Call("createmeta", base, NoPayload)>>]
                 ELSE [r1 EXCEPT !.pc = "create",
                                 !.jiraPayload = jiraPayload(body),
                                 !.outbound = <<Call("issue", base, jiraPayload(body))>>]

\* A call sent to the LLM API with the key it carries.
LlmCall(k) == [to |-> "anthropic", key |-> k]

\* The configuration error of the serverless generate-ticket handlers.
ConfigErrorMessage(i) ==
    IF i = "vercel-generate-ticket"
    THEN Text("Server configuration error: API key not set. Please configure ANTHROPIC_API_KEY in Vercel environment variables.", 112)
    ELSE Text("Server configuration error: API key not set", 43)

\* The generate-ticket handler of implementation i, whose module-level key
\* is k, up to its call of the LLM API. Express has been through rateLimit
\* and express.json; the Netlify function tests the key after its limiter
\* and the Vercel function, which has no limiter, tests it first.
BeginGenerate(i, key, req, limited, k) ==
    LET r0 == [NoRun EXCEPT !.key = key, !.req = req]
    IN  IF limited = 429
        THEN Answer(r0, Response(429, Text("Too many requests. Please try again in a minute.", 48), ""))
        ELSE IF i # "express" /\ ~Truthy(k)
        THEN Answer(r0, Response(500, ConfigErrorMessage(i), ""))
        ELSE IF i # "express" /\ req.method = "OPTIONS"
        THEN Answer(r0, Response(200, NoText, ""))
        ELSE IF i # "express" /\ req.method # "POST"
        THEN Answer(r0, Response(405, Text("Method not allowed", 18), ""))
        ELSE IF i # "express" /\ ~req.hasBody
        THEN Answer(r0, Response(500, CaughtMessage, ""))
        ELSE IF req.body.messages # "array"
        THEN Answer(r0, Response(400, Text("Invalid request: messages array is required", 43), ""))
        ELSE [r0 EXCEPT !.pc = "llm", !.forwarded = <<LlmCall(k)>>]

\* pushToJira sends a POST with a JSON body to the push endpoint and waits
\* for the answer in fetchWithTimeout.
SentByPushToJira(req) ==
    req.route = "push-to-jira" /\ req.method = "POST" /\ req.hasBody

\* The requests tried: Express routes only POST to the handlers and parses
\* an absent body to {}; a serverless handler sees every method and body.
BodiesOf(route) == IF route = "generate-ticket" THEN GenerateBodies ELSE Bodies
Requests(i) ==
    UNION {{[route |-> r, method |-> m, hasBody |-> TRUE, body |-> b] :
               m \in IF i = "express" THEN {"POST"} ELSE Methods,
               b \in BodiesOf(r)} : r \in Routes(i)}
    \cup {[route |-> r, method |-> m, hasBody |-> FALSE, body |-> EmptyBody] :
        r \in Routes(i), m \in IF i = "express" THEN {"POST"} ELSE Methods}

\* The caller's entry once its window holds as many requests as are allowed.
FullWindow(i) ==
    MapSet(<< >>, HandlerKey,
           [count |-> MAX_REQUESTS_PER_WINDOW(i), resetTime |-> RATE_LIMIT_WINDOW])

\* The windows tried for implementation i.
Windows(i) == IF HasLimiter(i) THEN {<< >>, FullWindow(i)} ELSE {<< >>}

\* The keys tried: every one where the key is read, that is by the
\* generate-ticket handlers and by the Express server as it starts (which
\* tells a set key from an unset one and reads no more of it on the tracker
\* routes); a set key elsewhere.
KeysTried(i, route) ==
    IF route = "generate-ticket" THEN ApiKeys
    ELSE IF i = "express" THEN {Undefined, << >>, <<"k">>}
    ELSE {<<"k">>}

\* A request is on its way; the caller's window is new or full.
InitHandler ==
    /\ impl \in HandlerImpls
    /\ request \in Requests(impl)
    /\ run = NoRun
    /\ client = NoClient
    /\ apiKey \in KeysTried(impl, request.route)
    /\ server = NoServer
    /\ rateLimitMap \in Windows(impl)
    /\ now = 0
    /\ advances = 0
    /\ nth = [k \in Keys |-> 0]
    /\ openedAt = [k \in Keys |-> 0]
    /\ last = NoRequest
    /\ UrlIdle
    /\ ParserIdle
    /\ EndpointIdle
    /\ HistoryIdle
    /\ PageIdle

\* The process starts. server.js reads the key and exits with code 1 when
\* it is not set, before any route is registered or app.listen is called;
\* a serverless module evaluates its constants and exports its handler.
Start ==
    /\ server.state = "loading"
    /\ server' = IF impl = "express" /\ ~Truthy(apiKey)
                 THEN [state |-> "exited", exitCode |-> 1, key |-> apiKey]
                 ELSE [state |-> "listening", exitCode |-> 0,
                       key |-> ANTHROPIC_API_KEY(impl, apiKey)]
    /\ UNCHANGED <<limiterVars, urlVars, parserVars, request, run, client, apiKey, endpointVars, historyVars, pageVars>>

\* The arrival with the method looked at first: a serverless handler lets
\* only a POST through its limiter.
ArriveMethodFirst ==
    /\ server.state = "listening"
    /\ run.pc = "idle"
    /\ LET lim == IF HasLimiter(impl) /\ (impl = "express" \/ request.method = "POST")
                  THEN Limiter(impl, rateLimitMap, HandlerKey, now)
                  ELSE [map |-> rateLimitMap, status |-> 0] IN
        /\ rateLimitMap' = lim.map
        /\ run' = IF request.route = "generate-ticket"
                  THEN BeginGenerate(impl, HandlerKey, request, lim.status, server.key)
                  ELSE Begin(impl, HandlerKey, request, lim.status)
    /\ client' = IF SentByPushToJira(request)
                 THEN [client EXCEPT !.pc = "waiting"]
                 ELSE client
    /\ UNCHANGED <<impl, now, advances, nth, openedAt, last, request>>
    /\ UNCHANGED <<urlVars, parserVars, serverVars, endpointVars, historyVars, pageVars>>

\* The request arrives at a process that serves; the limiter, where there
\* is one, sees it first.
Arrive ==
    /\ server.state = "listening"
    /\ run.pc = "idle"
    /\ LET lim == IF HasLimiter(impl)
                  THEN Limiter(impl, rateLimitMap, HandlerKey, now)
                  ELSE [map |-> rateLimitMap, status |-> 0] IN
        /\ rateLimitMap' = lim.map
        /\ run' = IF request.route = "generate-ticket"
                  THEN BeginGenerate(impl, HandlerKey, request, lim.status, server.key)
                  ELSE Begin(impl, HandlerKey, request, lim.status)
    /\ client' = IF SentByPushToJira(request)
                 THEN [client EXCEPT !.pc = "waiting"]
                 ELSE client
    /\ UNCHANGED <<impl, now, advances, nth, openedAt, last, request>>
    /\ UNCHANGED <<urlVars, parserVars, serverVars, endpointVars, historyVars, pageVars>>

\* getEngineeringTeamId settles; the team field is set and the issue sent.
LookupReturns(meta) ==
    /\ run.pc = "lookup"
    /\ LET engTeamId == getEngineeringTeamId(meta, engTeamValue(run.req.body))
           payload == [run.jiraPayload EXCEPT !.customfield_11737 =
                          [id |-> engTeamId, value |-> engTeamValue(run.req.body)]]
       IN  run' = [run EXCEPT !.pc = "create", !.meta = meta,
                              !.jiraPayload = payload,
                              !.outbound = Append(@, Call("issue", run.base, payload))]
    /\ UNCHANGED <<limiterVars, urlVars, parserVars, request, client, serverVars, endpointVars, historyVars, pageVars>>

\* The issue creation settles.
CreateReturns(o) ==
    /\ run.pc = "create"
    /\ run' = LET r == [run EXCEPT !.meta = NoMeta, !.created = o] IN
              CASE o.kind \in {"throws", "okBadJson"} ->
                       Answer(r, Response(500, CaughtMessage, ""))
                [] o.kind = "nonOk" /\ o.body = "null" ->
                       Answer(r, Response(500, CaughtMessage, ""))
                [] o.kind = "nonOk" /\ o.body # "null" ->
                       Answer(r, Response(o.status, CreateErrorMessage(o.body, o.size), ""))
                [] OTHER -> UploadFrom(r, 1)
    /\ UNCHANGED <<limiterVars, urlVars, parserVars, request, client, serverVars, endpointVars, historyVars, pageVars>>

\* One attachment upload settles.
UploadReturns(o) ==
    /\ run.pc = "upload"
    /\ run' = LET r == [run EXCEPT !.uploads = Append(@, o)] IN
              IF o = "tooLarge"
              THEN Answer(r, Response(413, TooLargeMessage, ""))
              ELSE UploadFrom(r, run.i + 1)
    /\ UNCHANGED <<limiterVars, urlVars, parserVars, request, client, serverVars, endpointVars, historyVars, pageVars>>

\* The /myself call of the connection test settles.
MyselfReturns(o) ==
    /\ run.pc = "myself"
    /\ LET r == [run EXCEPT !.upstream = [kind |-> o.kind, status |-> o.status]] IN
       run' = CASE o.kind \in {"throws", "okBadJson"} ->
                       Answer(r, Response(500, CaughtMessage, ""))
                [] o.kind = "nonOk" ->
                       Answer(r, Response(o.status, TestErrorMessage(o.status), ""))
                [] OTHER -> Answer(r, Response(200, NoText, ""))
    /\ UNCHANGED <<limiterVars, urlVars, parserVars, request, client, serverVars, endpointVars, historyVars, pageVars>>

\* The generate-ticket handler without its catch for a 2xx body that does
\* not parse: the answer goes out as a success.
LlmReturnsUnparsedPassedOn(o) ==
    /\ run.pc = "llm"
    /\ LET r == [run EXCEPT !.upstream = [kind |-> o.kind, status |-> o.status]] IN
       run' = CASE o.kind = "throws" ->
                       Answer(r, Response(500, CaughtMessage, ""))
                [] o.kind = "nonOk" /\ o.body \in {"null", "nonJson"} ->
                       Answer(r, Response(500, CaughtMessage, ""))
                [] o.kind = "nonOk" /\ o.body = "message" ->
                       Answer(r, Response(o.status, Text("<errorData.error.message>", TextShort), ""))
                [] o.kind = "nonOk" ->
                       Answer(r, Response(o.status, Text("Failed to generate ticket", 25), ""))
                [] OTHER -> Answer(r, Response(200, NoText, ""))
    /\ UNCHANGED <<limiterVars, urlVars, parserVars, request, client, serverVars, endpointVars, historyVars, pageVars>>

\* The LLM API call settles. A thrown fetch and a body that does not parse
\* (which includes reading errorData.error of the JSON null) end in the
\* catch; a non-2xx answer is passed on with its status and error.message
\* or the stock text; a 2xx answer is passed on as it is.
LlmReturns(o) ==
    /\ run.pc = "llm"
    /\ LET r == [run EXCEPT !.upstream = [kind |-> o.kind, status |-> o.status]] IN
       run' = CASE o.kind \in {"throws", "okBadJson"} ->
                       Answer(r, Response(500, CaughtMessage, ""))
                [] o.kind = "nonOk" /\ o.body \in {"null", "nonJson"} ->
                       Answer(r, Response(500, CaughtMessage, ""))
                [] o.kind = "nonOk" /\ o.body = "message" ->
                       Answer(r, Response(o.status, Text("<errorData.error.message>", TextShort), ""))
                [] o.kind = "nonOk" ->
                       Answer(r, Response(o.status, Text("Failed to generate ticket", 25), ""))
                [] OTHER -> Answer(r, Response(200, NoText, ""))
    /\ UNCHANGED <<limiterVars, urlVars, parserVars, request, client, serverVars, endpointVars, historyVars, pageVars>>

\* A timeout in the browser that would reach the handler and end its run.
ClientTimeoutCancelsRun ==
    /\ client.pc = "waiting"
    /\ client' = [pc |-> "timedOut", toast |-> TimeoutToast]
    /\ run' = IF run.pc = "done" THEN run ELSE [run EXCEPT !.pc = "cancelled"]
    /\ UNCHANGED <<limiterVars, urlVars, parserVars, request, serverVars, endpointVars, historyVars, pageVars>>

\* fetchWithTimeout's timer goes off before the response has come: the
\* request is aborted in the browser and the timeout is shown.
ClientTimeout ==
    /\ client.pc = "waiting"
    /\ client' = [pc |-> "timedOut", toast |-> TimeoutToast]
    /\ UNCHANGED <<limiterVars, urlVars, parserVars, request, run, serverVars, endpointVars, historyVars, pageVars>>

\* The handler's response reaches the browser and its toast is shown.
ClientReceives ==
    /\ client.pc = "waiting"
    /\ run.pc = "done"
    /\ client' = [pc |-> "shown", toast |-> pushToJiraToast(run.response)]
    /\ UNCHANGED <<limiterVars, urlVars, parserVars, request, run, serverVars, endpointVars, historyVars, pageVars>>

NextHandler ==
    \/ Start
    \/ Arrive
    \/ ClientTimeout
    \/ ClientReceives
    \/ \E meta \in MetaOutcomes : LookupReturns(meta)
    \/ \E o \in CreateOutcomes : CreateReturns(o)
    \/ \E o \in UploadOutcomes : UploadReturns(o)
    \/ \E o \in MyselfOutcomes : MyselfReturns(o)
    \/ \E o \in LlmOutcomes : LlmReturns(o)

SpecHandler == InitHandler /\ [][NextHandler]_vars

\* The requests whose runs await upstream calls: complete POST requests,
\* with a team to look up where the route is push-to-jira.
AwaitingRequests(i) ==
    {q \in Requests(i) :
        /\ q.method = "POST"
        /\ q.hasBody
        /\ q.route = "generate-ticket" => q.body.messages = "array"
        /\ q.route # "generate-ticket" =>
              /\ q.body \in CompleteBodies
              /\ q.body.projectKey = C_PROJ
              /\ q.body.fields.priorityId = <<"1">>
              /\ q.body.fields.priorityName = <<"P", "1">>
              /\ q.body.customFields = [present |-> TRUE, engineeringTeam |-> C_Core]}

\* A request that will await upstream calls is on its way to a process
\* with a key and a new window.
InitTimers ==
    /\ impl \in HandlerImpls
    /\ request \in AwaitingRequests(impl)
    /\ run = NoRun
    /\ client = NoClient
    /\ apiKey = <<"k">>
    /\ server = NoServer
    /\ rateLimitMap = << >>
    /\ now = 0
    /\ advances = 0
    /\ nth = [k \in Keys |-> 0]
    /\ openedAt = [k \in Keys |-> 0]
    /\ last = NoRequest
    /\ UrlIdle
    /\ ParserIdle
    /\ EndpointIdle
    /\ HistoryIdle
    /\ PageIdle

\* The handler runs with what the code's timers guarantee: the timer that
\* fetchWithTimeout sets in the browser goes off unless the response comes
\* first. The handlers set no timer on their own fetch calls, so nothing
\* obliges an upstream call to settle.
SpecHandlerTimers ==
    /\ InitTimers
    /\ [][NextHandler]_vars
    /\ WF_vars(ClientTimeout)

-----------------------------------------------------------------------------
(* Claims about the rate limiters *)

Threshold == MAX_REQUESTS_PER_WINDOW(impl)

\* The last request arrived before the end of the window its caller is in.
LastInsideWindow ==
    last.at < openedAt[last.key] + RATE_LIMIT_WINDOW

\* C1: in every limiter, the Nth request of a caller inside one window,
\* counted from the request that opened the window, is answered 429 if and
\* only if N exceeds the threshold, and is let through otherwise.
C1_NthDeniedIffOverThreshold ==
    last.key # "none" =>
        /\ last.status \in {0, 429}
        /\ (last.status = 429) <=> (last.n > Threshold)
        /\ last.opened => last.n = 1

\* C1 witness: request number threshold + 1 of a window was answered 429.
C1_Witness ==
    /\ last.key # "none"
    /\ LastInsideWindow
    /\ last.n = Threshold + 1
    /\ last.status = 429

\* C2: in every limiter, a request of a caller whose entry has count equal
\* to the threshold and that arrives at now = resetTime, or later, starts a
\* new window: count 1, resetTime now + RATE_LIMIT_WINDOW, request allowed.
C2_ResetAtBoundary ==
    (/\ last.key # "none"
     /\ last.hadEntry
     /\ last.prev.count = Threshold
     /\ last.at >= last.prev.resetTime)
    => /\ last.status = 0
       /\ rateLimitMap[last.key] =
              [count |-> 1, resetTime |-> last.at + RATE_LIMIT_WINDOW]

\* C3: every stored entry has 1 <= count <= threshold, and a request that
\* does not open a window is rejected exactly when it finds the count at
\* the threshold.
C3_CountWithinMax ==
    /\ \A k \in DOMAIN rateLimitMap :
          /\ rateLimitMap[k].count >= 1
          /\ rateLimitMap[k].count <= Threshold
    /\ (last.key # "none" /\ last.hadEntry /\ ~last.opened) =>
          ((last.status = 429) <=> (last.prev.count = Threshold))

\* C3 witness: an entry stands at the threshold and the request that found
\* it there was rejected.
C3_Witness ==
    /\ last.key # "none"
    /\ last.status = 429
    /\ rateLimitMap[last.key].count = Threshold
    /\ last.prev.count = Threshold

-----------------------------------------------------------------------------
(* Claims about validateJiraUrl *)

Validated == urlResult # NoResult

UrlIsHttps == ParseURL(url).protocol = C_https \o <<":">>
UrlIsAtlassian == endsWith(ParseURL(url).hostname, C_atlassian_net)

\* C4: validateJiraUrl(url) answers valid if and only if url parses with
\* protocol https: and a hostname ending in .atlassian.net; otherwise the
\* reason is the format when it does not parse, HTTPS when the scheme is
\* wrong (also when the host is wrong too), the host when only the host is
\* wrong; and it never throws.
C4_ValidIffHttpsAtlassian ==
    Validated =>
        /\ ~urlResult.threw
        /\ urlResult.valid <=> (ParseURL(url).ok /\ UrlIsHttps /\ UrlIsAtlassian)
        /\ urlResult.valid => urlResult.error = ""
        /\ ~ParseURL(url).ok => urlResult.error = "Invalid Jira URL format"
        /\ (ParseURL(url).ok /\ ~UrlIsHttps) =>
              urlResult.error = "Jira URL must use HTTPS"
        /\ (ParseURL(url).ok /\ UrlIsHttps /\ ~UrlIsAtlassian) =>
              urlResult.error = "Only Atlassian-hosted Jira instances are allowed"

\* C4 witness: a URL with both the scheme and the host wrong was rejected
\* for its scheme.
C4_Witness ==
    /\ Validated
    /\ ParseURL(url).ok
    /\ ~UrlIsHttps
    /\ ~UrlIsAtlassian
    /\ urlResult.error = "Jira URL must use HTTPS"

-----------------------------------------------------------------------------
(* Claims about parseTicketForJira *)

Parsed == fields # NotParsed

LabelMissing(label) == IndexOfFrom(ticketContent, label, 1) = 0

\* The word Priority, in any letter case, is nowhere in the text.
PriorityMissing ==
    IndexOfFrom(toLowerCase(ticketContent), toLowerCase(C_Priority), 1) = 0

AllDefined ==
    /\ fields.title # Undefined
    /\ fields.description # Undefined
    /\ fields.steps # Undefined
    /\ fields.expected # Undefined
    /\ fields.actual # Undefined
    /\ fields.impact # Undefined
    /\ fields.environment # Undefined
    /\ fields.priorityId # Undefined
    /\ fields.priorityName # Undefined

\* The sections after the title resolve to the empty string when their
\* label is missing, the priority to P3 / '3'.
BodiesDefault ==
    /\ LabelMissing(C_Description) => fields.description = << >>
    /\ LabelMissing(C_Steps) => fields.steps = << >>
    /\ LabelMissing(C_Expected) => fields.expected = << >>
    /\ LabelMissing(C_Actual) => fields.actual = << >>
    /\ LabelMissing(C_Impact) => fields.impact = << >>
    /\ LabelMissing(C_Environment) => fields.environment = << >>
    /\ PriorityMissing =>
          fields.priorityName = <<"P", "3">> /\ fields.priorityId = <<"3">>

\* C6 as claimed: every field of the result is defined, and every section
\* whose label is missing from the text, the title included, resolves to
\* the empty string, a missing priority to P3 / '3'.
C6_MissingResolveToEmpty ==
    Parsed =>
        /\ AllDefined
        /\ BodiesDefault
        /\ LabelMissing(C_Title) => fields.title = << >>

\* C6 as amended: every field of the result is defined; a missing title
\* resolves to 'Bug Report', every other section whose label is missing to
\* the empty string, a missing priority to P3 / '3'.
C6_MissingResolveToDefaults ==
    Parsed =>
        /\ AllDefined
        /\ BodiesDefault
        /\ LabelMissing(C_Title) => fields.title = C_BugReport

\* C6 witness: a text without a title, a description and a priority was
\* parsed.
C6_Witness ==
    /\ Parsed
    /\ LabelMissing(C_Title)
    /\ LabelMissing(C_Description)
    /\ PriorityMissing
    /\ ~LabelMissing(C_Environment)
    /\ fields.title = C_BugReport
    /\ fields.description = << >>

\* C7: whenever the text's Priority section carries a code P1..P4, bold or
\* not, the result is that code whatever the other sections contain; P3 is
\* the result by default only when none of the five patterns matches.
C7_RecoversSectionCode ==
    Parsed =>
        /\ secPriority # Undefined => fields.priorityName = secPriority
        /\ ExtractPriorityText(ticketContent) # Undefined =>
              fields.priorityName = ExtractPriorityText(ticketContent)

\* C8: the result's priorityName is one of P1..P4 and its priorityId is the
\* digit of that name, so that the name is recovered from the identifier.
C8_PriorityIdIsDigitOfName ==
    Parsed =>
        /\ fields.priorityName \in PriorityCodes
        /\ fields.priorityId \in {<<"1">>, <<"2">>, <<"3">>, <<"4">>}
        /\ fields.priorityName = <<"P">> \o fields.priorityId

\* C8 witness: a text whose Priority section says p4 in lower case was
\* parsed to P4 / '4'.
C8_Witness ==
    /\ Parsed
    /\ secPriority = <<"P", "4">>
    /\ fields.priorityName = <<"P", "4">>
    /\ fields.priorityId = <<"4">>
    /\ IndexOfFrom(ticketContent, <<"p", "4">>, 1) > 0

-----------------------------------------------------------------------------
(* Claims about the test-jira and push-to-jira handlers *)

Present(v) == v # Undefined /\ Len(v) > 0

\* The request under way carries every field its route requires.
RequestComplete ==
    LET b == run.req.body IN
    /\ Present(b.jiraUrl)
    /\ Present(b.email)
    /\ Present(b.apiToken)
    /\ run.req.route = "push-to-jira" => (Present(b.projectKey) /\ b.fields.present)

UrlAccepted == validateJiraUrl(run.req.body.jiraUrl).valid

\* The run got as far as a tracker handler's checks of the body.
ReachedChecks ==
    /\ run.pc # "idle"
    /\ run.req.route \in {"test-jira", "push-to-jira"}
    /\ run.response.status # 429
    /\ run.req.method = "POST"
    /\ impl = "express" \/ run.req.hasBody

\* C5: a handler run sends a call to the tracker only if, in that run, every
\* required field was present and validateJiraUrl accepted the URL; a run
\* whose request fails either check answers 400 and has sent no call.
C5_NoCallUnlessValidated ==
    /\ run.outbound # << >> => (RequestComplete /\ UrlAccepted)
    /\ (ReachedChecks /\ ~(RequestComplete /\ UrlAccepted)) =>
          /\ run.pc = "done"
          /\ run.response.status = 400
          /\ run.outbound = << >>

\* A push request, complete but for a URL that validateJiraUrl rejects, has
\* been answered 400.
C5_Witness ==
    /\ run.req.route = "push-to-jira"
    /\ ReachedChecks
    /\ RequestComplete
    /\ ~UrlAccepted
    /\ run.response.status = 400
    /\ run.outbound = << >>

\* C9: every issue-creation call carries issue type 'Bug', the request's
\* project key, and a priority whose id and name are both present and
\* name the same level (name = 'P' + id), also when the request lacks
\* fields.priorityId or fields.priorityName.
C9_IssuePayloadConsistent ==
    \A k \in 1..Len(run.outbound) :
        run.outbound[k].to = "issue" =>
            LET p == run.outbound[k].payload IN
            /\ p.issuetype.name = "Bug"
            /\ p.project.key = run.req.body.projectKey
            /\ Present(p.priority.id)
            /\ Present(p.priority.name)
            /\ p.priority.name = <<"P">> \o p.priority.id

\* The team the request names, trimmed.
TeamNamed ==
    IF run.req.body.customFields.present
       /\ Present(run.req.body.customFields.engineeringTeam)
    THEN trim(run.req.body.customFields.engineeringTeam)
    ELSE << >>

\* Option k of the metadata is the first one whose value or name is the team.
FirstMatchAt(k) ==
    LET av == run.meta.allowedValues
        Is(j) == av[j].value = TeamNamed \/ av[j].name = TeamNamed
    IN  Is(k) /\ \A j \in 1..(k - 1) : ~Is(j)

\* The lookup that has just settled found the team's option, with an id.
LookupFoundId ==
    /\ run.meta.kind = "options"
    /\ \E k \in 1..Len(run.meta.allowedValues) :
          FirstMatchAt(k) /\ Present(run.meta.allowedValues[k].id)

\* C10: with a team that is non-empty after trimming, the createmeta lookup
\* is sent before the issue; when it has settled the issue-creation call has
\* been sent with the team field {value} without id if the lookup threw, was
\* answered non-OK, lacked the field or its allowedValues, matched no option
\* or matched one without id, and {id, value} if the matching option has an
\* id; no response has been caused by the lookup.
C10_TeamLookupFallsBack ==
    /\ \A k \in 1..Len(run.outbound) :
          (run.outbound[k].to = "issue" /\ TeamNamed # << >>) =>
              k = 2 /\ run.outbound[1].to = "createmeta"
    /\ run.meta # NoMeta =>
          LET f == run.jiraPayload.customfield_11737
              call == run.outbound[Len(run.outbound)]
          IN  /\ TeamNamed # << >>
              /\ run.pc = "create"
              /\ run.response = NoResponse
              /\ call.to = "issue"
              /\ call.payload = run.jiraPayload
              /\ f.value = TeamNamed
              /\ IF LookupFoundId
                 THEN \E k \in 1..Len(run.meta.allowedValues) :
                         FirstMatchAt(k) /\ f.id = run.meta.allowedValues[k].id
                 ELSE f.id = Undefined

\* The lookup threw and the issue has been sent with the team's value alone.
C10_Witness ==
    /\ run.meta.kind = "throws"
    /\ run.pc = "create"
    /\ run.outbound[Len(run.outbound)].to = "issue"
    /\ run.outbound[Len(run.outbound)].payload.customfield_11737
          = [id |-> Undefined, value |-> TeamNamed]
    /\ TeamNamed # << >>

\* The calls of the run so far that go to one endpoint of the tracker.
CallsTo(to) == {k \in 1..Len(run.outbound) : run.outbound[k].to = to}

\* The place of a call in the order lookup, creation, uploads.
StageOf(to) == CASE to = "createmeta" -> 1 [] to = "issue" -> 2 [] OTHER -> 3

\* C11: a push run sends its calls in the order lookup (at most one),
\* issue creation (exactly one once submitted), attachment uploads; no
\* issue call is out while the lookup is pending; an upload is sent only
\* after the creation returned 2xx; when the creation returned non-2xx no
\* upload is sent and the response carries the tracker's status code.
C11_PushOrder ==
    run.req.route = "push-to-jira" =>
        /\ Cardinality(CallsTo("createmeta")) <= 1
        /\ Cardinality(CallsTo("issue")) <= 1
        /\ run.pc \in {"create", "upload"} => Cardinality(CallsTo("issue")) = 1
        /\ \A j, k \in 1..Len(run.outbound) :
              j < k => StageOf(run.outbound[j].to) <= StageOf(run.outbound[k].to)
        /\ run.pc = "lookup" => CallsTo("issue") = {}
        /\ CallsTo("attachment") # {} =>
              (run.created.kind = "ok" /\ CallsTo("issue") # {})
        /\ run.created.kind = "nonOk" =>
              /\ CallsTo("attachment") = {}
              /\ run.pc = "done"
              /\ run.response.status = run.created.status

\* What the attachments before position p came to is known: each malformed
\* entry was passed over without a call, each other one was sent and settled.
SettledBefore(p) ==
    /\ Len(run.uploads) = p - 1
    /\ \A q \in 1..(p - 1) :
          (run.uploads[q] = "malformed") <=> (run.req.body.attachments[q] # "file")

\* The attachments at positions 1..p that are sent to the tracker.
SentUpTo(p) == {q \in 1..p : run.req.body.attachments[q] = "file"}

\* C12: uploads go one at a time in array order: while upload i is pending
\* every attachment before i has settled and none after i has been sent; a
\* failed upload other than a 413 (non-2xx, thrown error, malformed entry)
\* ends nothing: once the run has answered without a 413, every attachment
\* has been attempted and the answer is 200 with the issue's key.
C12_UploadsSequentialAndIsolated ==
    /\ run.pc = "upload" =>
          /\ run.i \in 1..Len(run.req.body.attachments)
          /\ run.req.body.attachments[run.i] = "file"
          /\ SettledBefore(run.i)
          /\ Cardinality(CallsTo("attachment")) = Cardinality(SentUpTo(run.i))
    /\ (run.pc = "done" /\ run.created.kind = "ok"
          /\ \A q \in 1..Len(run.uploads) : run.uploads[q] # "tooLarge") =>
          /\ SettledBefore(Len(run.req.body.attachments) + 1)
          /\ Cardinality(CallsTo("attachment"))
                = Cardinality(SentUpTo(Len(run.req.body.attachments)))
          /\ run.response = Response(200, NoText, "KEY-1")

\* C13: when the upload of attachment q is answered 413 the run ends there
\* with status 413 and the too-large message and without the issue's key;
\* no attachment after q is sent, nothing but lookup, creation and uploads
\* was ever sent to the tracker (the created issue is left as it is), and
\* the toast the client shows for this response is its too-large message.
C13_TooLargeIsFatal ==
    \A q \in 1..Len(run.uploads) :
        run.uploads[q] = "tooLarge" =>
            /\ q = Len(run.uploads)
            /\ run.pc = "done"
            /\ run.response.status = 413
            /\ run.response.error.text
                  = "One or more files are too large for Jira. Please remove large files and try again."
            /\ run.response.key = ""
            /\ run.created.kind = "ok"
            /\ Cardinality(CallsTo("attachment")) = Cardinality(SentUpTo(q))
            /\ \A k \in 1..Len(run.outbound) :
                  run.outbound[k].to \in {"createmeta", "issue", "attachment"}
            /\ client.pc = "shown" =>
                  (client.toast.kind = "too-large" /\ client.toast.text = "")

\* The first of several attachments was answered 413 and the client has
\* shown its too-large message.
C13_Witness ==
    /\ Len(run.req.body.attachments) > 1
    /\ run.req.body.attachments[2] = "file"
    /\ run.uploads = <<"tooLarge">>
    /\ run.response.status = 413
    /\ client.pc = "shown"
    /\ client.toast.kind = "too-large"

\* The tracker's own error text for a body of each kind that carries one.
TrackerText(body) ==
    CASE body = "errorMessages" -> "<errorMessages joined>"
      [] body = "errors" -> "<field errors joined>"
      [] body = "error" -> "<error>"
      [] body = "nonJson" -> "Jira API returned non-JSON response: <first 200 characters>"
      [] OTHER -> ""

\* C14: when the tracker answers the issue creation with a non-2xx status,
\* the proxy answers with that status; the client shows the authentication
\* message for 401, the permission message for 403, the not-found message
\* for 404 and for every other status the tracker's own text (errorMessages
\* joined, else field errors, else error, else the first 200 characters of
\* a non-JSON body), cut after 200 characters.
C14_TrackerErrorsMapped ==
    run.created.kind = "nonOk" =>
        /\ run.pc = "done"
        /\ run.response.status = run.created.status
        /\ TrackerText(run.created.body) # "" =>
              run.response.error.text = TrackerText(run.created.body)
        /\ client.pc = "shown" =>
              /\ run.created.status = 401 => client.toast.kind = "authentication"
              /\ run.created.status = 403 => client.toast.kind = "permission"
              /\ run.created.status = 404 => client.toast.kind = "not-found"
              /\ (run.created.status \notin {401, 403, 404}
                    /\ TrackerText(run.created.body) # "") =>
                    /\ client.toast.kind = "server-text"
                    /\ client.toast.text = TrackerText(run.created.body)
              /\ client.toast.cut <=> (2 + run.response.error.len > 200
                                        /\ client.toast.kind = "server-text")
              /\ client.toast.len <= 200 + 3

-----------------------------------------------------------------------------
(* Concurrent invocations on one instance *)

\* f with one more request counted at time t.
CountAt(f, t) ==
    [x \in DOMAIN f \cup {t} |->
        IF x = t THEN (IF t \in DOMAIN f THEN f[t] + 1 ELSE 1) ELSE f[x]]

\* The requests counted in f at the times in T.
RECURSIVE CountedIn(_, _)
CountedIn(f, T) ==
    IF T = {} THEN 0
    ELSE LET t == CHOOSE x \in T : TRUE IN f[t] + CountedIn(f, T \ {t})

\* The requests counted in f from time a on and before time b.
AllowedIn(f, a, b) == CountedIn(f, {t \in DOMAIN f : a <= t /\ t < b})

\* The map that the limiter of a handler reads when its invocation runs:
\* an invocation that takes the map as it was when its request arrived.
MapReadAtArrival(seen, current) == seen

\* The map that the limiter of a handler reads when its invocation runs:
\* rateLimitMap itself, at the top of the handler.
MapRead(seen, current) == current

InitConcurrent ==
    /\ impl \in Impls
    /\ LimiterStart
    /\ UrlIdle
    /\ ParserIdle
    /\ HandlerIdle
    /\ EndpointIdle
    /\ allowedAt = [k \in {HandlerKey} |-> << >>]
    /\ shadowMap = << >>
    /\ invocations = NoInvocations
    /\ PageIdle

\* A request of the caller reaches the instance and waits for its turn on
\* the event loop.
Invoke ==
    /\ Len(invocations.queued) < MaxQueued
    /\ invocations' = [invocations EXCEPT
                          !.queued = Append(@, [key |-> HandlerKey, seen |-> rateLimitMap])]
    /\ UNCHANGED <<limiterVars, allowedAt, shadowMap>>
    /\ UNCHANGED <<urlVars, parserVars, handlerVars, endpointVars, pageVars>>

\* A waiting invocation runs from the top of its handler to its first
\* await, or to its 429: the check and the update of the caller's entry
\* are in this one step. allowedAt counts, at the time the window opened,
\* the requests allowed in it.
Enter ==
    /\ invocations.queued # << >>
    /\ LET q == Head(invocations.queued)
           ip == q.key
           r == Limiter(impl, MapRead(q.seen, rateLimitMap), ip, now)
           opened == /\ r.status = 0
                     /\ \/ ip \notin DOMAIN rateLimitMap
                        \/ r.map[ip].resetTime # rateLimitMap[ip].resetTime
           n == IF opened THEN 1 ELSE nth[ip] + 1
       IN  /\ n <= MAX_REQUESTS_PER_WINDOW(impl) + MaxOver
           /\ rateLimitMap' = r.map
           /\ nth' = [nth EXCEPT ![ip] = n]
           /\ openedAt' = [openedAt EXCEPT ![ip] = IF opened THEN now ELSE @]
           /\ allowedAt' = IF opened
                           THEN [allowedAt EXCEPT ![ip] = CountAt(<< >>, now)]
                           ELSE IF r.status = 0
                           THEN [allowedAt EXCEPT ![ip] = CountAt(@, openedAt[ip])]
                           ELSE allowedAt
           /\ invocations' = [invocations EXCEPT
                                 !.queued = Tail(@),
                                 !.suspended = IF r.status = 0 THEN @ + 1 ELSE @,
                                 !.denied = IF r.status = 429 THEN @ + 1 ELSE @]
    /\ UNCHANGED <<impl, now, advances, last, shadowMap>>
    /\ UNCHANGED <<urlVars, parserVars, handlerVars, endpointVars, pageVars>>

\* A suspended invocation's upstream calls are over and it returns.
Return ==
    /\ invocations.suspended > 0
    /\ invocations' = [invocations EXCEPT !.suspended = @ - 1]
    /\ UNCHANGED <<limiterVars, allowedAt, shadowMap>>
    /\ UNCHANGED <<urlVars, parserVars, handlerVars, endpointVars, pageVars>>

NextConcurrent ==
    \/ \E d \in Deltas : Tick(d)
    \/ Invoke
    \/ Enter
    \/ Return

SpecConcurrent == InitConcurrent /\ [][NextConcurrent]_vars

-----------------------------------------------------------------------------
(* The limiter with the arrival times of the allowed requests *)

InitSliding ==
    /\ impl \in Impls
    /\ LimiterStart
    /\ UrlIdle
    /\ ParserIdle
    /\ HandlerIdle
    /\ EndpointIdle
    /\ allowedAt = [k \in {HandlerKey} |-> << >>]
    /\ shadowMap = << >>
    /\ invocations = NoInvocations
    /\ PageIdle

\* One request of the caller passes through the limiter; when it is
\* allowed, its arrival time is kept.
Admit(ip) ==
    LET r == Limiter(impl, rateLimitMap, ip, now)
        opened == r.status = 0 /\ r.map[ip].count = 1
        n == IF opened THEN 1 ELSE nth[ip] + 1
    IN  /\ n <= MAX_REQUESTS_PER_WINDOW(impl) + MaxOver
        /\ rateLimitMap' = r.map
        /\ nth' = [nth EXCEPT ![ip] = n]
        /\ openedAt' = [openedAt EXCEPT ![ip] = IF opened THEN now ELSE @]
        /\ allowedAt' = IF r.status = 0
                        THEN [allowedAt EXCEPT ![ip] = CountAt(@, now)]
                        ELSE allowedAt
        /\ UNCHANGED <<impl, now, advances, last, shadowMap, invocations>>
        /\ UNCHANGED <<urlVars, parserVars, handlerVars, endpointVars, pageVars>>

NextSliding ==
    \/ \E d \in Deltas : Tick(d)
    \/ Admit(HandlerKey)

SpecSliding == InitSliding /\ [][NextSliding]_vars

-----------------------------------------------------------------------------
(* The Express limiter and the cleanup of its map *)

\* The test with the margin on the wrong side: entries still in their
\* window pass it.
CleanupDeletesLiveEntries(limit, t) == t + CLEANUP_GRACE > limit.resetTime

\* server.js: the cleanup's test of one entry
Expired(limit, t) == t > limit.resetTime + CLEANUP_GRACE

\* How far the clock moves here: a whole window, or one millisecond more,
\* so that an entry gets older than its window and the cleanup's margin.
CleanupDeltas == {RATE_LIMIT_WINDOW, RATE_LIMIT_WINDOW + 1}

\* The reference limiter, whose map is never cleaned, before any request.
NoShadow == [map |-> << >>, status |-> 0]

InitCleanup ==
    /\ impl = "express"
    /\ LimiterStart
    /\ UrlIdle
    /\ ParserIdle
    /\ HandlerIdle
    /\ EndpointIdle
    /\ allowedAt = << >>
    /\ shadowMap = NoShadow
    /\ invocations = NoInvocations
    /\ PageIdle

\* One request passes through the middleware, and through the reference
\* limiter at the same time.
Serve(ip) ==
    LET r == rateLimit(rateLimitMap, ip, now)
        hadEntry == ip \in DOMAIN rateLimitMap
        opened == r.status = 0 /\ r.map[ip].count = 1
        n == IF opened THEN 1 ELSE nth[ip] + 1
    IN  /\ n <= MAX_REQUESTS_EXPRESS + MaxOver
        /\ rateLimitMap' = r.map
        /\ shadowMap' = rateLimit(shadowMap.map, ip, now)
        /\ nth' = [nth EXCEPT ![ip] = n]
        /\ openedAt' = [openedAt EXCEPT ![ip] = IF opened THEN now ELSE @]
        /\ last' = [key |-> ip, at |-> now, status |-> r.status, opened |-> opened,
                    n |-> n, hadEntry |-> hadEntry,
                    prev |-> IF hadEntry THEN rateLimitMap[ip]
                             ELSE [count |-> 0, resetTime |-> 0]]
        /\ UNCHANGED <<impl, now, advances, allowedAt, invocations>>
        /\ UNCHANGED <<urlVars, parserVars, handlerVars, endpointVars, pageVars>>

\* server.js: the interval callback. It is let run at any time, whatever
\* the timer's period.
Cleanup ==
    /\ rateLimitMap' = [k \in {ip \in DOMAIN rateLimitMap :
                                  ~Expired(rateLimitMap[ip], now)} |-> rateLimitMap[k]]
    /\ UNCHANGED <<impl, now, advances, nth, openedAt, last>>
    /\ UNCHANGED <<urlVars, parserVars, handlerVars, endpointVars, historyVars, pageVars>>

NextCleanup ==
    \/ \E d \in CleanupDeltas : Tick(d)
    \/ \E ip \in Keys : Serve(ip)
    \/ Cleanup

SpecCleanup == InitCleanup /\ [][NextCleanup]_vars

-----------------------------------------------------------------------------
(* The page: BugTrackerApp's state, its handlers and its asynchronous runs *)

\* The texts the generation can produce, and what the user can type into
\* the editor.
AiTexts == {"ai1", "ai2"}
EditedTexts == {"edit1"}

\* saveTicketToHistory keeps the last ten tickets.
HISTORY_LIMIT == 10

\* The upload area: 'Max 10 files', and 'Add More' below ten.
FILES_LIMIT == 10

FilesLength(f) == f.image + f.video

\* saveTicketToHistory: [newTicket, ...ticketHistory].slice(0, 10)
Keep(history) ==
    SubSeq(history, 1, IF Len(history) < HISTORY_LIMIT THEN Len(history) ELSE HISTORY_LIMIT)

\* A run of an async handler as it starts.
NewJob(op) ==
    [op |-> op, pc |-> "fetch", left |-> 0, interval |-> 0, seen |-> << >>,
     response |-> "none", ended |-> "no", toast |-> "none",
     videoToast |-> "none", attachments |-> 0, batch |-> NoFiles]

\* The runs of op that have not ended.
InFlight(op) == {i \in DOMAIN jobs : jobs[i].op = op /\ jobs[i].pc # "done"}
Started(op) == {i \in DOMAIN jobs : jobs[i].op = op}

\* clearInterval(countdownIntervalRef.current) where the ref is set
ClearInterval(p) ==
    [p EXCEPT !.intervals = @ \ {p.countdownIntervalRef}]

\* handleDescriptionChange: a description that passes generateTicket's
\* checks is typed. The keyboard effect depends on bugDescription and
\* files and binds the handlers of the render it runs in.
Type ==
    /\ page' = [page EXCEPT !.bugDescription = "ok", !.bound = page.ticketHistory]
    /\ UNCHANGED jobs
    /\ UNCHANGED <<limiterVars, urlVars, parserVars, handlerVars, endpointVars, historyVars>>

\* generateTicket from its first line to its first await. The Generate
\* button is disabled while loading; the Ctrl/Cmd+Enter listener is not.
\* The listener calls the generateTicket of the render its effect ran in.
generateTicket(trigger) ==
    /\ trigger = "button" => ~page.loading
    /\ Cardinality(Started("generateTicket")) < MaxRuns
    /\ IF page.bugDescription = ""
       THEN /\ page' = [page EXCEPT !.toast = "error"]
            /\ UNCHANGED jobs
       ELSE LET id == Len(jobs) + 1
                p == ClearInterval(page) IN
            /\ page' = [p EXCEPT !.loading = TRUE, !.ticket = Null,
                                 !.countdownIntervalRef = id,
                                 !.intervals = @ \cup {id},
                                 !.cleared = FALSE]
            /\ jobs' = Append(jobs,
                   [NewJob("generateTicket") EXCEPT
                       !.pc = IF page.files.video > 0 THEN "frames" ELSE "fetch",
                       !.left = page.files.video,
                       !.interval = id,
                       !.seen = IF trigger = "shortcut" THEN page.bound
                                ELSE page.ticketHistory])
    /\ UNCHANGED <<limiterVars, urlVars, parserVars, handlerVars, endpointVars, historyVars>>

\* The catch and the finally of generateTicket.
GenerateFails(p, i) ==
    /\ page' = [ClearInterval(p) EXCEPT !.countdownIntervalRef = 0,
                                        !.toast = "error", !.loading = FALSE]
    /\ jobs' = [jobs EXCEPT ![i].pc = "done", ![i].response = "none", ![i].ended = "failed",
                            ![i].toast = "error"]

\* extractMultipleVideoFrames settles for one video of run i: it resolves
\* with the frames, rejects on the video's error event (caught by the
\* loop, which goes on), or never settles: where toBlob hands over no
\* blob, or a listener throws on a duration that is not finite, neither
\* resolve nor reject is called.
FramesSettle(i, outcome) ==
    /\ i \in DOMAIN jobs
    /\ jobs[i].op = "generateTicket" /\ jobs[i].pc = "frames"
    /\ CASE outcome = "pending" ->
                /\ jobs' = [jobs EXCEPT ![i].pc = "stalled"]
                /\ UNCHANGED page
         [] OTHER ->
                /\ jobs' = [jobs EXCEPT
                       ![i].left = @ - 1,
                       ![i].pc = IF jobs[i].left = 1 THEN "fetch" ELSE "frames",
                       ![i].videoToast = IF outcome = "rejected" THEN "info" ELSE @]
                /\ page' = IF outcome = "rejected"
                           THEN [page EXCEPT !.toast = "info"]
                           ELSE page
    /\ UNCHANGED <<limiterVars, urlVars, parserVars, handlerVars, endpointVars, historyVars>>

\* fetchWithTimeout settles for run i of generateTicket: with a response,
\* whose body is read next, or by throwing (network error, or the abort
\* after 90 s).
FetchOutcomes == {"ok json", "ok other", "error json", "error other", "network", "timeout"}
GenerateFetchSettles(i, outcome) ==
    /\ i \in DOMAIN jobs
    /\ jobs[i].op = "generateTicket" /\ jobs[i].pc = "fetch"
    /\ IF outcome \in {"network", "timeout"}
       THEN GenerateFails(page, i)
       ELSE /\ jobs' = [jobs EXCEPT ![i].pc = "body", ![i].response = outcome]
            /\ UNCHANGED page
    /\ UNCHANGED <<limiterVars, urlVars, parserVars, handlerVars, endpointVars, historyVars>>

\* response.json() or response.text() settles for run i of generateTicket.
\* content: the text in data.content, Null where the body cannot be read or
\* holds no content array. Only an ok JSON response with content goes on to
\* the success path; everything else throws.
GenerateBodySettles(i, content) ==
    /\ i \in DOMAIN jobs
    /\ jobs[i].op = "generateTicket" /\ jobs[i].pc = "body"
    /\ IF jobs[i].response = "ok json" /\ content # Null
       THEN /\ page' = [ClearInterval(page) EXCEPT
                           !.qualityScore = "scored",
                           !.countdownIntervalRef = 0,
                           !.ticket = content,
                           !.originalTicket = content,
                           !.editedTicket = content,
                           !.isEditingTicket = FALSE,
                           !.toast = "success",
                           !.ticketHistory = Keep(<<content>> \o jobs[i].seen),
                           !.origin = content,
                           !.loading = FALSE]
            /\ jobs' = [jobs EXCEPT ![i].pc = "done", ![i].response = "none", ![i].ended = "ok",
                                    ![i].toast = "success"]
       ELSE GenerateFails(page, i)
    /\ UNCHANGED <<limiterVars, urlVars, parserVars, handlerVars, endpointVars, historyVars>>

\* resetForm: the New button (shown with a ticket) or the Escape key.
resetForm(trigger) ==
    /\ trigger = "button" => page.ticket # Null
    /\ page' = [page EXCEPT !.bugDescription = "", !.files = NoFiles,
                            !.ticket = Null, !.originalTicket = Null,
                            !.editedTicket = "", !.isEditingTicket = FALSE,
                            !.showSaveDialog = FALSE, !.qualityScore = Null,
                            !.toast = "info", !.bound = page.ticketHistory,
                            !.origin = Null, !.cleared = TRUE]
    /\ UNCHANGED jobs
    /\ UNCHANGED <<limiterVars, urlVars, parserVars, handlerVars, endpointVars, historyVars>>

handleEditTicket ==
    /\ page.ticket # Null /\ ~page.isEditingTicket
    /\ page' = [page EXCEPT !.isEditingTicket = TRUE, !.editedTicket = page.ticket]
    /\ UNCHANGED jobs
    /\ UNCHANGED <<limiterVars, urlVars, parserVars, handlerVars, endpointVars, historyVars>>

\* The editor's onChange.
setEditedTicket(text) ==
    /\ page.ticket # Null /\ page.isEditingTicket
    /\ page' = [page EXCEPT !.editedTicket = text]
    /\ UNCHANGED jobs
    /\ UNCHANGED <<limiterVars, urlVars, parserVars, handlerVars, endpointVars, historyVars>>

handleCancelEdit ==
    /\ page.ticket # Null /\ page.isEditingTicket
    /\ page' = [page EXCEPT !.isEditingTicket = FALSE, !.editedTicket = page.ticket,
                            !.showSaveDialog = FALSE]
    /\ UNCHANGED jobs
    /\ UNCHANGED <<limiterVars, urlVars, parserVars, handlerVars, endpointVars, historyVars>>

handleSaveTicketClick ==
    /\ page.ticket # Null /\ page.isEditingTicket
    /\ page' = [page EXCEPT !.showSaveDialog = TRUE]
    /\ UNCHANGED jobs
    /\ UNCHANGED <<limiterVars, urlVars, parserVars, handlerVars, endpointVars, historyVars>>

\* The dialog's Finally Save button. The ticket shown still derives from
\* the same generated text.
handleFinallySave ==
    /\ page.showSaveDialog
    /\ page' = [page EXCEPT !.ticket = page.editedTicket,
                            !.originalTicket = page.editedTicket,
                            !.isEditingTicket = FALSE, !.showSaveDialog = FALSE,
                            !.toast = "success"]
    /\ UNCHANGED jobs
    /\ UNCHANGED <<limiterVars, urlVars, parserVars, handlerVars, endpointVars, historyVars>>

\* The button is shown while ticket !== originalTicket outside the editor.
handleResetToOriginal ==
    /\ page.ticket # Null /\ ~page.isEditingTicket
    /\ page.originalTicket # Null /\ page.ticket # page.originalTicket
    /\ page' = [page EXCEPT !.ticket = page.originalTicket,
                            !.editedTicket = page.originalTicket,
                            !.isEditingTicket = FALSE, !.showSaveDialog = FALSE,
                            !.toast = "info"]
    /\ UNCHANGED jobs
    /\ UNCHANGED <<limiterVars, urlVars, parserVars, handlerVars, endpointVars, historyVars>>

\* An item of the history panel is clicked; the history holds generated
\* texts only.
loadHistoryTicket(k) ==
    /\ k \in DOMAIN page.ticketHistory
    /\ page' = [page EXCEPT !.ticket = page.ticketHistory[k], !.toast = "success",
                            !.origin = page.ticketHistory[k], !.cleared = FALSE]
    /\ UNCHANGED jobs
    /\ UNCHANGED <<limiterVars, urlVars, parserVars, handlerVars, endpointVars, historyVars>>

\* pushToJira to its await of fetchWithTimeout. skip: the attachments are
\* left out (a production build and more than 6 MB of them).
pushToJira(skip) ==
    /\ page.ticket # Null /\ ~page.isPushingToJira
    /\ Cardinality(Started("pushToJira")) < MaxPushes
    /\ IF ~page.jiraConfigured
       THEN /\ page' = [page EXCEPT !.toast = "error"]
            /\ UNCHANGED jobs
       ELSE /\ page' = [page EXCEPT !.isPushingToJira = TRUE,
                                    !.toast = IF skip THEN "info" ELSE @]
            /\ jobs' = Append(jobs,
                   [NewJob("pushToJira") EXCEPT
                       !.attachments = IF FilesLength(page.files) > 0 /\ ~skip
                                       THEN FilesLength(page.files) ELSE 0])
    /\ UNCHANGED <<limiterVars, urlVars, parserVars, handlerVars, endpointVars, historyVars>>

\* testJiraConnection to its await; the button is disabled without the
\* settings and while a test runs.
testJiraConnection ==
    /\ page.jiraConfigured /\ ~page.isTestingConnection
    /\ Cardinality(Started("testJiraConnection")) < MaxPushes
    /\ page' = [page EXCEPT !.isTestingConnection = TRUE]
    /\ jobs' = Append(jobs, NewJob("testJiraConnection"))
    /\ UNCHANGED <<limiterVars, urlVars, parserVars, handlerVars, endpointVars, historyVars>>

\* The flag of a tracker run.
BusyFlag(op, p, v) ==
    IF op = "pushToJira" THEN [p EXCEPT !.isPushingToJira = v]
    ELSE [p EXCEPT !.isTestingConnection = v]

\* fetchWithTimeout settles for a tracker run.
TrackerFetchSettles(i, outcome) ==
    /\ i \in DOMAIN jobs
    /\ jobs[i].op \in {"pushToJira", "testJiraConnection"} /\ jobs[i].pc = "fetch"
    /\ IF outcome \in {"network", "timeout"}
       THEN /\ page' = [BusyFlag(jobs[i].op, page, FALSE) EXCEPT !.toast = "error"]
            /\ jobs' = [jobs EXCEPT ![i].pc = "done", ![i].response = "none", ![i].ended = "failed",
                                    ![i].toast = "error"]
       ELSE /\ jobs' = [jobs EXCEPT ![i].pc = "body", ![i].response = outcome]
            /\ UNCHANGED page
    /\ UNCHANGED <<limiterVars, urlVars, parserVars, handlerVars, endpointVars, historyVars>>

\* response.json() settles for a tracker run (read: it resolved). An error
\* response ends in an error toast whether its body could be read or not.
TrackerBodySettles(i, read) ==
    /\ i \in DOMAIN jobs
    /\ jobs[i].op \in {"pushToJira", "testJiraConnection"} /\ jobs[i].pc = "body"
    /\ LET ok == jobs[i].response \in {"ok json", "ok other"} /\ read
           t == IF ok THEN "success" ELSE "error" IN
       /\ page' = [BusyFlag(jobs[i].op, page, FALSE) EXCEPT !.toast = t]
       /\ jobs' = [jobs EXCEPT ![i].pc = "done", ![i].response = "none",
                               ![i].ended = IF ok THEN "ok" ELSE "failed",
                               ![i].toast = t]
    /\ UNCHANGED <<limiterVars, urlVars, parserVars, handlerVars, endpointVars, historyVars>>

\* An awaited promise of a generation settles, the frames of a video apart.
SettleGenerate ==
    \E i \in 1..MaxJobs :
        \/ \E o \in FetchOutcomes : GenerateFetchSettles(i, o)
        \/ \E c \in AiTexts \cup {Null} : GenerateBodySettles(i, c)

\* An awaited promise of some run settles.
Settle ==
    \/ SettleGenerate
    \/ \E i \in 1..MaxJobs :
           \/ \E o \in {"resolved", "rejected", "pending"} : FramesSettle(i, o)
           \/ \E o \in FetchOutcomes : TrackerFetchSettles(i, o)
           \/ \E r \in BOOLEAN : TrackerBodySettles(i, r)

\* The page as it is mounted: nothing typed, nothing attached.
InitPage ==
    /\ impl = "express"
    /\ LimiterStart
    /\ UrlIdle
    /\ ParserIdle
    /\ HandlerIdle
    /\ EndpointIdle
    /\ HistoryIdle
    /\ page = NoPage
    /\ jobs = << >>

\* The ticket and its editing.
NextPage ==
    \/ Type
    \/ \E trigger \in {"button", "shortcut"} : generateTicket(trigger)
    \/ \E trigger \in {"button", "escape"} : resetForm(trigger)
    \/ handleEditTicket
    \/ \E t \in EditedTexts : setEditedTicket(t)
    \/ handleCancelEdit
    \/ handleSaveTicketClick
    \/ handleFinallySave
    \/ handleResetToOriginal
    \/ \E k \in 1..MaxRuns : loadHistoryTicket(k)
    \/ SettleGenerate

SpecPage == InitPage /\ [][NextPage]_vars

\* The page with the files tried attached, and a tracker configuration
\* that is complete or not.
PageFiles == {NoFiles, [image |-> 1, video |-> 1]}
InitRuns ==
    /\ impl = "express"
    /\ LimiterStart
    /\ UrlIdle
    /\ ParserIdle
    /\ HandlerIdle
    /\ EndpointIdle
    /\ HistoryIdle
    /\ \E f \in PageFiles, c \in BOOLEAN :
           page = [NoPage EXCEPT !.files = f, !.jiraConfigured = c]
    /\ jobs = << >>

\* The asynchronous runs, each started from its button.
NextRuns ==
    \/ Type
    \/ generateTicket("button")
    \/ \E skip \in BOOLEAN : pushToJira(skip)
    \/ testJiraConnection
    \/ Settle

\* Every promise that can settle does settle in the end.
SpecRuns == InitRuns /\ [][NextRuns]_vars /\ WF_vars(Settle)

-----------------------------------------------------------------------------
(* The attached files *)

\* What one selection or one drop can hold: images, videos and files of
\* other types.
Batches ==
    {b \in [image : 0..MaxBatch, video : 0..MaxBatch, other : 0..MaxBatch] :
        b.image + b.video + b.other \in 1..MaxBatch}

\* addFiles: the files that are no image and no video are dropped; with
\* none left an error toast is set, otherwise the files are read and
\* setFiles runs when all of them have been.
addFiles(batch) ==
    IF batch.image + batch.video = 0
    THEN /\ page' = [page EXCEPT !.toast = "error"]
         /\ UNCHANGED jobs
    ELSE /\ jobs' = Append(jobs,
                [NewJob("addFiles") EXCEPT
                    !.pc = "reading",
                    !.batch = [image |-> batch.image, video |-> batch.video]])
         /\ UNCHANGED page

\* handleFileChange: a selection in the file input, whose labels are the
\* upload area while no file is attached and 'Add More' while fewer than
\* ten are.
handleFileChange(batch) ==
    /\ FilesLength(page.files) < FILES_LIMIT
    /\ Cardinality(InFlight("addFiles")) < MaxReads
    /\ addFiles(batch)
    /\ UNCHANGED <<limiterVars, urlVars, parserVars, handlerVars, endpointVars, historyVars>>

\* handleDrop: files are dropped on the upload area.
handleDrop(batch) ==
    /\ Cardinality(InFlight("addFiles")) < MaxReads
    /\ addFiles(batch)
    /\ UNCHANGED <<limiterVars, urlVars, parserVars, handlerVars, endpointVars, historyVars>>

\* The jobs without job i.
Without(i) == [k \in 1..(Len(jobs) - 1) |-> IF k < i THEN jobs[k] ELSE jobs[k + 1]]

\* Promise.all of the readers settles: the files read are appended to the
\* files attached, or a reader failed and nothing is.
FilesRead(i, read) ==
    /\ i \in DOMAIN jobs
    /\ jobs[i].op = "addFiles" /\ jobs[i].pc = "reading"
    /\ FilesLength(page.files) + FilesLength(jobs[i].batch) <= MaxFiles
    /\ page' = IF read
               THEN [page EXCEPT !.files = [image |-> @.image + jobs[i].batch.image,
                                            video |-> @.video + jobs[i].batch.video],
                                 !.toast = "success"]
               ELSE [page EXCEPT !.toast = "error"]
    /\ jobs' = Without(i)
    /\ UNCHANGED <<limiterVars, urlVars, parserVars, handlerVars, endpointVars, historyVars>>

\* removeFile: the button on one attached file.
removeFile(kind) ==
    /\ page.files[kind] > 0
    /\ page' = [page EXCEPT !.files[kind] = @ - 1, !.toast = "success"]
    /\ UNCHANGED jobs
    /\ UNCHANGED <<limiterVars, urlVars, parserVars, handlerVars, endpointVars, historyVars>>

\* clearAllFiles: shown with the files.
clearAllFiles ==
    /\ FilesLength(page.files) > 0
    /\ page' = [page EXCEPT !.files = NoFiles, !.toast = "success"]
    /\ UNCHANGED jobs
    /\ UNCHANGED <<limiterVars, urlVars, parserVars, handlerVars, endpointVars, historyVars>>

\* A run of a tracker handler settles.
SettleTracker ==
    \E i \in 1..MaxJobs :
        \/ \E o \in FetchOutcomes : TrackerFetchSettles(i, o)
        \/ \E r \in BOOLEAN : TrackerBodySettles(i, r)

\* The page with a generated ticket shown and the tracker configured.
InitFiles ==
    /\ impl = "express"
    /\ LimiterStart
    /\ UrlIdle
    /\ ParserIdle
    /\ HandlerIdle
    /\ EndpointIdle
    /\ HistoryIdle
    /\ \E t \in AiTexts :
           page = [NoPage EXCEPT !.bugDescription = "ok", !.ticket = t,
                                 !.originalTicket = t, !.editedTicket = t,
                                 !.qualityScore = "scored",
                                 !.ticketHistory = <<t>>, !.toast = "success",
                                 !.origin = t, !.jiraConfigured = TRUE]
    /\ jobs = << >>

NextFiles ==
    \/ \E b \in Batches : handleFileChange(b)
    \/ \E b \in Batches : handleDrop(b)
    \/ \E i \in 1..MaxJobs, read \in BOOLEAN : FilesRead(i, read)
    \/ \E kind \in {"image", "video"} : removeFile(kind)
    \/ clearAllFiles
    \/ \E skip \in BOOLEAN : pushToJira(skip)
    \/ SettleTracker

SpecFiles == InitFiles /\ [][NextFiles]_vars

-----------------------------------------------------------------------------
(* The endpoint resolver *)

InitEndpoint ==
    /\ signals \in Signals
    /\ endpoint = Undefined
    /\ impl = "express"
    /\ LimiterStart
    /\ UrlIdle
    /\ ParserIdle
    /\ HandlerIdle
    /\ HistoryIdle
    /\ PageIdle

\* A component calls getApiEndpoint.
Resolve ==
    /\ endpoint = Undefined
    /\ endpoint' = getApiEndpoint(signals, signals.functionName)
    /\ UNCHANGED <<signals, limiterVars, urlVars, parserVars, handlerVars>>
    /\ UNCHANGED <<historyVars, pageVars>>

NextEndpoint == Resolve

SpecEndpoint == InitEndpoint /\ [][NextEndpoint]_vars

-----------------------------------------------------------------------------
(* Responses and upstream failures *)

\* The kinds of outcome in which an upstream call has failed: a thrown
\* fetch, a non-2xx status, a body that does not parse.
FailureKinds == {"throws", "nonOk", "okBadJson"}

\* The run has answered with a JSON object that carries an error message.
ErrorAnswered ==
    /\ run.response.status >= 400
    /\ run.response.error # NoText
    /\ run.response.key = ""

\* The status of an error answer after outcome o: the upstream's, or 500.
StatusFollows(o) ==
    run.response.status \in (IF o.kind = "nonOk" THEN {o.status} ELSE {}) \cup {500}

\* One response for one invocation: none while the handler is at work,
\* one when it has returned, and the handler is always either about to
\* start, waiting for an upstream call, or returned.
OneResponse ==
    /\ run.pc \in {"idle", "lookup", "create", "upload", "myself", "llm", "done"}
    /\ run.responses = IF run.pc = "done" THEN 1 ELSE 0

\* The LLM call, the /myself call or the issue creation failed.
FatalCallFailed ==
    \/ run.upstream.kind \in FailureKinds
    \/ run.created.kind \in FailureKinds

\* An upload failed: a non-2xx answer, 413 among them, or a thrown fetch.
SomeUploadFailed ==
    \E n \in 1..Len(run.uploads) : run.uploads[n] \in {"failed", "tooLarge", "throws"}

-----------------------------------------------------------------------------
(* Timeouts *)

\* The handler is waiting for an upstream call to settle.
AwaitingUpstream == run.pc \in {"lookup", "create", "upload", "myself", "llm"}

\* The browser's wait for the submission ends: with the response, or with
\* the timeout that fetchWithTimeout raises.
ClientWaitEnds == (client.pc = "waiting") ~> (client.pc \in {"shown", "timedOut"})

\* C16: no external call stays pending forever: the browser's wait for the
\* proxy ends, and every upstream call that a handler awaits (LLM API,
\* metadata lookup, issue creation, attachment upload, /myself) ends, by
\* its answer or by its timeout.
C16_NoCallPendsForever ==
    /\ ClientWaitEnds
    /\ AwaitingUpstream ~> (run.pc = "done")

-----------------------------------------------------------------------------
(* The browser's timeout and the handler's run *)

\* C17: once the browser has aborted the submission and shown its timeout,
\* the handler's run for that request is where its own steps have brought
\* it and goes on from there: a pending lookup, issue creation or upload
\* can still settle and be followed by the next call, and a run that has
\* ended has ended with its own response.
C17_TimeoutDoesNotCancel ==
    client.pc = "timedOut" =>
        /\ client.toast = TimeoutToast
        /\ run.pc \in {"lookup", "create", "upload", "done"}
        /\ run.pc = "lookup" => ENABLED (\E meta \in MetaOutcomes : LookupReturns(meta))
        /\ run.pc = "create" => ENABLED (\E o \in CreateOutcomes : CreateReturns(o))
        /\ run.pc = "upload" => ENABLED (\E o \in UploadOutcomes : UploadReturns(o))
        /\ run.pc = "done" => run.responses = 1

\* The browser shows the timeout while the issue exists in the tracker,
\* an attachment has been uploaded, and the handler has answered 200 with
\* the issue's key.
C17_Witness ==
    /\ client.pc = "timedOut"
    /\ client.toast.kind = "timeout"
    /\ run.created.kind = "ok"
    /\ \E n \in 1..Len(run.uploads) : run.uploads[n] = "ok"
    /\ run.pc = "done"
    /\ run.response.status = 200

-----------------------------------------------------------------------------
(* The endpoint resolver's priorities *)

\* The hostname ends with a domain of the provider.
VercelSuffix(h) ==
    endsWith(h, <<".","v","e","r","c","e","l",".","a","p","p">>) \/ endsWith(h, <<".","v","e","r","c","e","l",".","c","o","m">>)
NetlifySuffix(h) ==
    endsWith(h, <<".","n","e","t","l","i","f","y",".","a","p","p">>) \/ endsWith(h, <<".","n","e","t","l","i","f","y",".","c","o","m">>)

\* The signals with every signal below the override taken away.
OverrideAlone(e) ==
    [e EXCEPT !.VITE_PLATFORM = Undefined, !.PROD = TRUE, !.window = "undefined",
              !.hostname = << >>, !.href = << >>]

\* What getApiEndpoint returns when no signal applies: in a development
\* build the local server, in a production build the Vercel path.
HardCodedFallback(e) ==
    IF e.PROD THEN VercelPath(e.functionName) ELSE LocalPath(e.functionName)

\* C18: the result follows the priority order: the override decides
\* whatever the other signals are; else VITE_PLATFORM decides; else the
\* page's hostname decides by the provider's suffix (Vercel gives
\* '/api/<fn>', Netlify '/.netlify/functions/<fn>'); and only when none of
\* these applies the hard-coded fallback is returned.
C18_PriorityOrder ==
    endpoint # Undefined =>
        LET e == signals
            fn == e.functionName
            h == toLowerCase(e.hostname)
        IN  IF Truthy(e.VITE_API_URL)
            THEN endpoint = getApiEndpoint(OverrideAlone(e), fn)
            ELSE IF e.VITE_PLATFORM = C_vercel THEN endpoint = VercelPath(fn)
            ELSE IF e.VITE_PLATFORM = C_netlify THEN endpoint = NetlifyPath(fn)
            ELSE IF e.window = "present" /\ VercelSuffix(h) THEN endpoint = VercelPath(fn)
            ELSE IF e.window = "present" /\ NetlifySuffix(h) THEN endpoint = NetlifyPath(fn)
            ELSE endpoint = HardCodedFallback(e)

\* A production build without override and without platform variable.
ProductionUnconfigured ==
    /\ endpoint # Undefined
    /\ signals.PROD
    /\ ~Truthy(signals.VITE_API_URL)
    /\ signals.VITE_PLATFORM = Undefined

NoProviderIn(s) ==
    /\ ~includes(s, C_vercel_app)
    /\ ~includes(s, C_vercel_com)
    /\ ~includes(s, C_netlify_app)
    /\ ~includes(s, C_netlify_com)

-----------------------------------------------------------------------------
(* The missing API key *)

\* ANTHROPIC_API_KEY is not set, or set to the empty string.
KeyUnset == apiKey \in {Undefined, << >>}

\* Nothing but white space is in the key.
KeyBlank == apiKey # Undefined /\ \A n \in 1..Len(apiKey) : apiKey[n] \in Whitespace

\* The key is missing for the implementation that runs.
KeyMissing == KeyUnset \/ (impl = "vercel-generate-ticket" /\ KeyBlank)

GenerateFunctions == {"vercel-generate-ticket", "netlify-generate-ticket"}

\* The handler has answered with the configuration error and has sent nothing.
ConfigErrorAnswered ==
    /\ run.pc = "done"
    /\ run.response.status = 500
    /\ run.response.error = ConfigErrorMessage(impl)
    /\ run.forwarded = << >>

\* Without the key nothing is forwarded, and the Express server exits with
\* code 1 before it listens and serves nothing.
NothingForwardedWithoutKey ==
    KeyMissing =>
        /\ run.forwarded = << >>
        /\ (impl = "express" /\ server.state # "loading") =>
              /\ server.state = "exited"
              /\ server.exitCode = 1
              /\ run.pc = "idle"

\* C20 as stated: without the key nothing is forwarded, Express exits, and
\* each serverless generate-ticket handler answers every request with the
\* 500 configuration error.
C20_MissingKeyIsFatal ==
    /\ NothingForwardedWithoutKey
    /\ (KeyMissing /\ impl \in GenerateFunctions /\ run.pc # "idle") =>
          ConfigErrorAnswered

\* C20: without the key nothing is forwarded, Express exits with code 1
\* before it listens, and each serverless generate-ticket handler answers
\* every request that its rate limiter lets through with the 500
\* configuration error before any upstream call; a request over the limit
\* of the Netlify function is answered 429.
C20_MissingKeyIsFatalPastLimiter ==
    /\ NothingForwardedWithoutKey
    /\ (KeyMissing /\ impl \in GenerateFunctions /\ run.pc # "idle") =>
          IF impl = "netlify-generate-ticket" /\ rateLimitMap = FullWindow(impl)
          THEN run.pc = "done" /\ run.response.status = 429 /\ run.forwarded = << >>
          ELSE ConfigErrorAnswered

\* The Vercel function, whose key is one space, has answered a POST that
\* carries messages with the configuration error.
C20_Witness ==
    /\ impl = "vercel-generate-ticket"
    /\ apiKey = <<" ">>
    /\ run.req.method = "POST"
    /\ run.req.body.messages = "array"
    /\ ConfigErrorAnswered

-----------------------------------------------------------------------------
(* The limiter under concurrent invocations *)

\* The caller's requests allowed since its window opened.
AllowedInWindow(ip) == AllowedIn(allowedAt[ip], openedAt[ip], now + 1)

\* C22: whatever the interleaving of invocations that wait, run to their
\* first await, stay suspended and return, the caller's count is the
\* number of its requests allowed in the window, so no increment is lost,
\* and that number never exceeds the threshold.
C22_NoLostIncrement ==
    \A ip \in DOMAIN allowedAt :
        /\ ip \in DOMAIN rateLimitMap =>
              rateLimitMap[ip].count = AllowedInWindow(ip)
        /\ ip \notin DOMAIN rateLimitMap => DOMAIN allowedAt[ip] = {}
        /\ AllowedInWindow(ip) <= MAX_REQUESTS_PER_WINDOW(impl)

\* Handlers are suspended at their upstream calls, another invocation is
\* waiting, and the request over the threshold has been denied.
C22_Witness ==
    /\ invocations.suspended >= 2
    /\ invocations.queued # << >>
    /\ invocations.denied >= 1
    /\ rateLimitMap[HandlerKey].count = MAX_REQUESTS_PER_WINDOW(impl)

-----------------------------------------------------------------------------
(* The limiter over every interval of one window's length *)

\* C23: for every caller and every interval of length RATE_LIMIT_WINDOW,
\* wherever it starts, the caller's requests allowed inside the interval
\* are at most MAX_REQUESTS_PER_WINDOW. (An interval with the most allowed
\* requests can be taken to start at the arrival of one of them.)
C23_SlidingBound ==
    \A ip \in DOMAIN allowedAt : \A a \in DOMAIN allowedAt[ip] :
        AllowedIn(allowedAt[ip], a, a + RATE_LIMIT_WINDOW)
            <= MAX_REQUESTS_PER_WINDOW(impl)

\* The same bound for the intervals that start where a window of the
\* limiter opened.
C23_FixedWindowBound ==
    \A ip \in DOMAIN allowedAt :
        AllowedIn(allowedAt[ip], openedAt[ip], openedAt[ip] + RATE_LIMIT_WINDOW)
            <= MAX_REQUESTS_PER_WINDOW(impl)

-----------------------------------------------------------------------------
(* What one request changes in the map *)

\* Caller k has the same entry in both maps, or none in either.
SameEntry(before, after, k) ==
    /\ k \in DOMAIN after <=> k \in DOMAIN before
    /\ k \in DOMAIN before => after[k] = before[k]

\* C26: a request answered 429 leaves the rate-limit map as it was, its
\* caller's count and resetTime included, and every request, allowed or
\* denied, changes at most the entry of its own caller: every other
\* caller's entry, or its absence, is kept.
C26_RequestTouchesOwnEntryOnly ==
    [][last'.key # "none" =>
           /\ last'.status = 429 => rateLimitMap' = rateLimitMap
           /\ \A k \in Keys :
                  k # last'.key => SameEntry(rateLimitMap, rateLimitMap', k)
      ]_vars

\* A request has been denied after its window's last millisecond had begun,
\* while another caller has an entry of its own in the map.
C26_Witness ==
    /\ last.key # "none"
    /\ last.status = 429
    /\ last.at > 0
    /\ last.prev = rateLimitMap[last.key]
    /\ \E k \in DOMAIN rateLimitMap : k # last.key

-----------------------------------------------------------------------------
(* The cleanup against a limiter that is never cleaned *)

\* C27: the cleanup of the Express map deletes only entries with
\* now > resetTime + 60000 (an entry missing from the cleaned map is that
\* old in the map never cleaned, every other entry is the same in both),
\* and every request gets the same decision from the middleware as from
\* a limiter whose map is never cleaned.
C27_CleanupUnobservable ==
    /\ DOMAIN rateLimitMap \subseteq DOMAIN shadowMap.map
    /\ \A k \in DOMAIN shadowMap.map :
          IF k \in DOMAIN rateLimitMap
          THEN rateLimitMap[k] = shadowMap.map[k]
          ELSE now > shadowMap.map[k].resetTime + CLEANUP_GRACE
    /\ last.key # "none" => last.status = shadowMap.status

\* A caller who used up a window comes back after the cleanup has deleted
\* the entry, and is allowed by both limiters.
C27_Witness ==
    /\ last.key # "none"
    /\ ~last.hadEntry
    /\ last.at > 0
    /\ last.status = 0
    /\ shadowMap.map[last.key].count = 1
    /\ \E k \in DOMAIN shadowMap.map : k \notin DOMAIN rateLimitMap

-----------------------------------------------------------------------------
(* The limiter and the method of the request *)

\* The serverless handlers that have a limiter.
LimitedFunctions == Impls \ {"express"}

\* The invocation was turned away by the limiter: answered 429 with no
\* call made (a 429 of the tracker or of the LLM API is passed on as well).
TurnedAway ==
    /\ run.pc = "done"
    /\ run.response.status = 429
    /\ run.outbound = << >>
    /\ run.forwarded = << >>

\* C28: in the serverless handlers the limiter runs before the method is
\* looked at. Once an invocation has arrived, whatever its method (OPTIONS
\* and the methods answered 405 included), it has either taken one unit
\* of its caller's window, or found the window full and been answered 429;
\* an OPTIONS preflight that finds the window full is answered 429 and no
\* invocation that does is answered 200 or 405.
C28_LimiterBeforeMethod ==
    (impl \in LimitedFunctions /\ run.pc # "idle") =>
        /\ HandlerKey \in DOMAIN rateLimitMap
        /\ rateLimitMap[HandlerKey].count =
               IF TurnedAway THEN MAX_REQUESTS_PER_WINDOW(impl) ELSE 1
        /\ rateLimitMap = FullWindow(impl) => TurnedAway
        /\ ~TurnedAway =>
               rateLimitMap[HandlerKey].resetTime = now + RATE_LIMIT_WINDOW

\* An OPTIONS preflight has found its caller's window full.
C28_Witness ==
    /\ impl \in LimitedFunctions
    /\ request.method = "OPTIONS"
    /\ rateLimitMap = FullWindow(impl)
    /\ TurnedAway

\* Another method than POST has taken a unit and been answered 405.
C28_WitnessNotAllowed ==
    /\ impl \in LimitedFunctions
    /\ request.method = "GET"
    /\ run.pc = "done" /\ run.response.status = 405
    /\ rateLimitMap[HandlerKey].count = 1

-----------------------------------------------------------------------------
(* The runs of the page's asynchronous handlers *)

\* Run i has started and not ended.
Running(i) == i \in DOMAIN jobs /\ jobs[i].pc # "done"
Ended(i) == i \in DOMAIN jobs /\ jobs[i].pc = "done"

\* Every run that has started ends.
EveryRunEnds == \A i \in 1..MaxJobs : Running(i) ~> Ended(i)

\* A busy flag is up only while a run of its handler has not ended.
FlagsFollowRuns ==
    /\ page.loading => InFlight("generateTicket") # {}
    /\ page.isPushingToJira => InFlight("pushToJira") # {}
    /\ page.isTestingConnection => InFlight("testJiraConnection") # {}

\* A run that failed has set an error toast, and so has a run in which
\* the frames of a video could not be taken.
FailuresSetErrorToast ==
    \A i \in DOMAIN jobs :
        /\ jobs[i].ended = "failed" => jobs[i].toast = "error"
        /\ jobs[i].videoToast \in {"none", "error"}

\* The failures of the request and of the reading of its answer alone.
RequestFailuresSetErrorToast ==
    \A i \in DOMAIN jobs : jobs[i].ended = "failed" => jobs[i].toast = "error"

\* No countdown interval runs once every generation has ended.
IntervalsCleared ==
    InFlight("generateTicket") = {} => page.intervals = {}

\* C21: no client operation is fatal to the page: every started run of
\* generateTicket, pushToJira and testJiraConnection ends, with its busy
\* flag down again; every failure (of the request, of the reading of the
\* answer, of the processing of an attached video) has set an error toast;
\* and the countdown interval is cleared when a generation has ended.
C21_NothingFatal ==
    /\ EveryRunEnds
    /\ []FlagsFollowRuns
    /\ []FailuresSetErrorToast
    /\ []IntervalsCleared

\* The same without the processing of videos: the runs that have reached
\* their request end, and the request's failures set an error toast.
AtRequest(i) == i \in DOMAIN jobs /\ jobs[i].pc \in {"fetch", "body"}
C21_RequestsEnd ==
    /\ \A i \in 1..MaxJobs : AtRequest(i) ~> Ended(i)
    /\ []FlagsFollowRuns
    /\ []RequestFailuresSetErrorToast
    /\ []IntervalsCleared

-----------------------------------------------------------------------------
(* The ticket shown, its original and the generations in flight *)

\* C25: originalTicket holds the generated text of the ticket shown:
\* whenever a ticket is shown, after any sequence of generations, edits,
\* cancelled and saved edits, loads from the history and resets to the
\* original, originalTicket is the text that the generation produced for
\* this ticket, which is what handleResetToOriginal puts back.
C25_OriginalIsGeneratedText ==
    page.ticket # Null => page.originalTicket = page.origin

\* The countdown intervals of the generations that have not ended.
IntervalsInFlight == {jobs[i].interval : i \in InFlight("generateTicket")}

\* C29: at most one generation is in flight: no second run of
\* generateTicket starts while loading is true, so that loading = false
\* means that no generation is pending, and a countdown interval that
\* runs is the one of the only generation in flight.
C29_OneGenerationInFlight ==
    /\ Cardinality(InFlight("generateTicket")) <= 1
    /\ ~page.loading => InFlight("generateTicket") = {}
    /\ page.intervals \subseteq IntervalsInFlight

\* C30: after resetForm the form stays cleared until a generation is
\* started (or a ticket is loaded from the history): in every step
\* between, ticket, originalTicket and qualityScore stay null and the
\* history is left as it is.
C30_StaysCleared ==
    [][(page.cleared /\ page'.cleared) =>
           /\ page'.ticket = Null
           /\ page'.originalTicket = Null
           /\ page'.qualityScore = Null
           /\ page'.ticketHistory = page.ticketHistory
      ]_vars

-----------------------------------------------------------------------------
(* The number of files attached *)

\* C24: at most ten files are attached after any sequence of selections,
\* drops, removals and clears, and a push carries at most ten attachments.
C24_AtMostTenFiles ==
    /\ FilesLength(page.files) <= FILES_LIMIT
    /\ \A i \in DOMAIN jobs : jobs[i].attachments <= FILES_LIMIT

====
